---- MODULE Spec2Model ----
(***************************************************************************)
(* ScrollSense content script (src/content.js, lines 1-1360) with the      *)
(* parts of the background worker it talks to (src/background.js).         *)
(*                                                                         *)
(* Time is Date.now() in milliseconds, measured from page load.  Every     *)
(* `await` on a message to the background worker is a point where other    *)
(* events of the page (timers, clicks, visibility changes) run, so an      *)
(* async handler is one action per segment between such awaits.            *)
(* setInterval/setTimeout callbacks run at or after their due time, never  *)
(* before it, and an interval is re-armed one period after it ran.         *)
(***************************************************************************)
EXTENDS Integers, Naturals, Sequences, FiniteSets, TLC

\* ------------------------------------------------------------------ bounds
StepMs == 120000       \* Date.now() is observed on a grid of this many ms
MaxNow == 600000       \* the clock stops after 10 minutes
MaxPending == 2        \* nudge-text requests in flight at the same time
MaxOrphans == 1        \* nudge modals left in the page with no reference
MaxExtends == 1        \* "10 more minutes" extensions per page
MaxPendingEnds == 1    \* endSession calls in flight at the same time
MaxSessions == 2       \* sessions started per page
MaxPendingPostBlur == 1 \* startPostSessionBlur calls in flight at the same time
RampStepMs == 500      \* clock grid of the post-session specification
MaxRampNow == 125000   \* its clock stops after 125 s
MaxLate == 1           \* timer callbacks that run later than they are due
EventStepMs == 15000   \* grid of clicks and messages in the post-session phase
MaxPostNow == 50000    \* the clock of that specification stops after 50 s
MaxConcurrentEnds == 2 \* endSession calls in flight where they may overlap
TabStepMs == 30000     \* clock grid of the popup-driven variant
MaxTabNow == 450000    \* its clock stops after 7.5 minutes
MaxMonitors == 2       \* monitor intervals running in one page
MaxTabSessions == 1    \* sessions started from the popup
MaxRequests == 2       \* nudge requests of one page

\* ------------------------------------------------------- program constants
PollMs == 1000                 \* setInterval period of the session poll
ExtendMs == 600000             \* 10 * 60000
MsPerMinute == 60000
IntentChoices == {1, 5}        \* data-minutes of intent buttons (1, 2, 5)
SessionBlurCapPercent == 50
SessionBlurMaxPx == 6
IndicatorMinPx == <<1, 2>>     \* blurPixels > 0.5 shows the blur control
PostBlurMaxPx == 12
PostBlurDefault == 50          \* blurIntensity || 50
BlurDuration == 120000
BlurSteps == 240
StepInterval == BlurDuration \div BlurSteps
FirstNudgeDelay == 30000
NudgeInterval == 45000
BlurSettings == {0, 50}        \* values of the stored blurIntensity (0..100)
Kinds == {"session", "post"}
Null == -1                     \* JavaScript null for a timestamp
RemoveMs == 600000             \* 10 * 60 * 1000 of "Remove for 10 min"
HistoryCap == 100              \* sessions.length > 100 drops the oldest
MonitorMs == 30000             \* setInterval period of startMonitoring
InitialCheckMs == 1000         \* setTimeout of startMonitoring
NudgeDismissMs == 30000        \* auto-dismiss of displayNudge
AlarmMs == 60000               \* periodInMinutes: 1 of the checkSession alarm
MaxBlurLevel == 10
TimeLimits == {1, 5}           \* minutes of the popup's timeLimit field

\* ----------------------------------------------------- rational numbers
\* JavaScript numbers are modelled as exact fractions <<n, d>> in lowest
\* terms; d = 0 stands for Infinity (x / 0 with x > 0).
RECURSIVE Gcd(_, _)
Gcd(a, b) == IF b = 0 THEN a ELSE Gcd(b, a % b)

Norm(n, d) ==
  IF d = 0 THEN <<1, 0>>
  ELSE IF n = 0 THEN <<0, 1>>
  ELSE LET g == Gcd(n, d) IN <<n \div g, d \div g>>

R(n) == <<n, 1>>
RMul(a, b) == Norm(a[1] * b[1], a[2] * b[2])
RDiv(a, b) == Norm(a[1] * b[2], a[2] * b[1])
RAdd(a, b) == Norm(a[1] * b[2] + b[1] * a[2], a[2] * b[2])
RLeq(a, b) ==
  IF b[2] = 0 THEN TRUE
  ELSE IF a[2] = 0 THEN FALSE
  ELSE a[1] * b[2] <= b[1] * a[2]
RLt(a, b) == RLeq(a, b) /\ a # b
RMin(a, b) == IF RLeq(a, b) THEN a ELSE b
RMax(a, b) == IF RLeq(a, b) THEN b ELSE a
Zero == <<0, 1>>
RSub(a, b) == Norm(a[1] * b[2] - b[1] * a[2], a[2] * b[2])

VARIABLES
  now,                 \* Date.now()
  hidden,              \* document.hidden
  currentSession,      \* <<>> (null) or <<[startTime, intendedTime]>>
  sessionTimer,        \* <<>> (null) or <<[due, startTime]>>: the poll interval
  hiddenTime,          \* accumulated hidden ms
  hiddenStartTime,     \* Null or the time the tab was hidden
  nudgeModal,          \* "none", or the kind of the modal the variable points to
  orphans,             \* per kind: nudge modals in the page no variable points to
  pendingNudges,       \* showNudge / showPostSessionNudge calls awaiting the text
  nudgeText,           \* text of the modal nudgeModal points to, "" with none
  blurOverlay,         \* the overlay element exists
  blurPx,              \* blur(...px) of the overlay's backdrop filter
  blurBy,              \* history: "session" / "post" curve wrote blurPx, or "none"
  blurControlIndicator,\* "none" or the type its click handler was made with
  blurControlPopup,    \* "none" or the type the open popup was made with
  isBlurActive,
  intentPrompt,        \* the intent prompt is shown
  sessionCompleteModal,\* the "Session Complete" modal is shown
  pendingStart,        \* <<>> or <<minutes>>: startSessionWithIntent awaiting the worker
  pendingEnds,         \* endSession calls awaiting the worker
  pendingPostBlur,     \* startPostSessionBlur calls awaiting the preferences
  pendingPopup,        \* "none", "remove" or "disable": popup handler awaiting the store
  postSessionBlurTimer,\* <<>> (null) or <<due>>: the ramp interval
  postCur,             \* currentBlurPixels of the ramp closure
  postMax,             \* maxBlurPixels of the ramp closure
  postSetting,         \* history: the stored blurIntensity the ramp read
  postTicks,           \* history: callbacks of the ramp interval that have run
  isPostSessionBlurActive,
  postSessionBlurStartTime,
  postSessionNudgeTimer,  \* <<>> (null) or <<due>>: the 45 s interval
  firstNudgeTimeouts,  \* due times of the 30 s timeouts not yet run
  hiddenSpan,          \* history: ms the tab was really hidden in this session
  extends,             \* history: extensions made (bounds the model)
  late,                \* history: late timer callbacks (bounds the model)
  sessions,            \* history: sessions started (bounds the model)
  storedSession,       \* currentSession of chrome.storage.local: <<>> or <<session>>
  storedSessions,      \* sessions of chrome.storage.local: the history records
  currentPlatform,     \* currentPlatform of chrome.storage.local
  armedPoll,           \* intervals set by startSessionTimer and not cleared
  armedRamp,           \* ramp intervals set by startPostSessionBlur, not cleared
  armedNudge,          \* intervals set by startPostSessionNudges, not cleared
  blurSkipUntil,       \* skipUntil of "Remove for 10 min", which the handler
                       \* stores as blurSkipUntil[platform]; 0: never chosen
  dailyUsage,          \* dailyUsage[platform] of chrome.storage.local, minutes
  workerEnds,          \* endSession messages the worker has not answered yet
  \* the popup-driven variant (src/popup.js, src/unnamed/part_000, part_002)
  popupSession,        \* its currentSession of the store: <<>> or <<[startTime, timeLimit]>>
  sessionHistory,      \* its sessionHistory of the store
  dailyStats,          \* its dailyStats[today] of the store
  checkSessionAlarm,   \* <<>> or <<due>>: the 'checkSession' alarm of its worker
  settings,            \* settings of the store as the page received them
  tabSession,          \* currentSession of its content script
  nudgeShown,
  blurLevel,
  overlay,             \* <<>> or <<level>>: the overlay element and the level it shows
  tabNudge,            \* "none", "nudge" or "reflection": the element in the page
  monitorIntervals,    \* due times of the setInterval of each startMonitoring
  initialChecks,       \* due times of the 1 s timeouts of startMonitoring
  dismissTimeouts,     \* due times of the 30 s timeouts of displayNudge
  pendingRequests,     \* REQUEST_NUDGE messages not answered yet
  nudgeRequests,       \* history: nudge requests of this page in this session
  tabStarts            \* history: sessions started from the popup (bounds the model)

clockV == <<now>>
sessV == <<currentSession, sessionTimer, armedPoll, hiddenTime,
          hiddenStartTime>>
histV == <<hiddenSpan, extends, sessions, late>>
nudgeV == <<nudgeModal, orphans, pendingNudges, nudgeText>>
blurV == <<blurOverlay, blurPx, blurBy>>
controlV == <<blurControlIndicator, blurControlPopup, isBlurActive>>
promptV == <<intentPrompt, sessionCompleteModal>>
asyncV == <<pendingStart, pendingEnds, pendingPostBlur, pendingPopup>>
rampV == <<postSessionBlurTimer, armedRamp, postCur, postMax, postSetting,
          postTicks>>
postV == <<isPostSessionBlurActive, postSessionBlurStartTime,
           postSessionNudgeTimer, armedNudge, firstNudgeTimeouts>>
storeV == <<storedSession, storedSessions, dailyUsage>>
tabV == <<popupSession, sessionHistory, dailyStats, checkSessionAlarm,
          settings, tabSession, nudgeShown, blurLevel, overlay, tabNudge,
          monitorIntervals, initialChecks, dismissTimeouts, pendingRequests,
          nudgeRequests, tabStarts>>
\* what lies outside the content script of src/content.js
workerV == <<storeV, currentPlatform, blurSkipUntil, workerEnds, tabV>>
\* the content script of src/content.js
pageV == <<hidden, sessV, histV, nudgeV, blurV, controlV, promptV, asyncV,
           rampV, postV>>

vars == <<clockV, hidden, sessV, histV, nudgeV, blurV, controlV, promptV,
          asyncV, rampV, postV, workerV>>

\* content.js:103 and :167-173, the platform of the page, and
\* background.js:137-144, another platform the worker detects
Platform == "instagram"
OtherPlatform == "reddit"
Platforms == {Platform, OtherPlatform}

HasSession == currentSession # <<>>
Session == currentSession[1]

\* --------------------------------------------------------------- helpers
\* the wall time, hidden intervals not subtracted
EffectiveElapsedWall(startTime) == now - startTime

\* content.js:492 and :829, Date.now() - startTime - hiddenTime
EffectiveElapsed(startTime) == now - startTime - hiddenTime

\* the percent without Math.min(50, ...)
SessionBlurPercentUncapped(elapsed, intendedTime) ==
  RMul(RDiv(R(elapsed - intendedTime), RMul(R(intendedTime), <<1, 2>>)),
       R(SessionBlurCapPercent))

\* a ramp window of 0 ms gives no blur
SessionBlurPercentNoRamp(elapsed, intendedTime) ==
  LET overTime == elapsed - intendedTime
      ramp == RMul(R(intendedTime), <<1, 2>>)
  IN IF ramp = Zero THEN Zero
     ELSE RMin(R(SessionBlurCapPercent),
               RMul(RDiv(R(overTime), ramp), R(SessionBlurCapPercent)))

\* content.js:505-507, the percent handed to applyProgressiveBlur
SessionBlurPercent(elapsed, intendedTime) ==
  LET overTime == elapsed - intendedTime
      ramp == RMul(R(intendedTime), <<1, 2>>)
  IN RMin(R(SessionBlurCapPercent),
          RMul(RDiv(R(overTime), ramp), R(SessionBlurCapPercent)))

\* the pixels on the 12 px scale of the post-session blur
SessionBlurPixelsOf12(percent) == RMul(RDiv(percent, R(100)), R(PostBlurMaxPx))

\* content.js:739, blurPixels = (percent / 100) * 6
SessionBlurPixels(percent) == RMul(RDiv(percent, R(100)), R(SessionBlurMaxPx))

\* content.js:948-956, maxBlurPixels from the stored blurIntensity
MaxBlurPixels(setting) ==
  LET blurIntensity == IF setting = 0 THEN PostBlurDefault ELSE setting
      capped == IF blurIntensity > 100 THEN 100
                ELSE IF blurIntensity < 0 THEN 0 ELSE blurIntensity
  IN RMul(RDiv(R(capped), R(100)), R(PostBlurMaxPx))

\* startSessionTimer without the return on document.hidden
StartSessionTimerAnyway(sess, hid, old) ==
  IF sess = <<>> THEN old
  ELSE <<[due |-> now + PollMs, startTime |-> sess[1].startTime]>>

\* startSessionTimer that arms no interval
StartSessionTimerKeep(sess, hid, old) == old

\* if (timer) clearInterval(timer): the intervals that stay armed
ClearInterval(timer, armed) == IF timer # <<>> THEN armed - 1 ELSE armed

\* startSessionTimer without the clearInterval of the existing timer
ArmSessionTimerKeepOld(sess, hid, old, armed) ==
  IF sess = <<>> \/ hid THEN armed ELSE armed + 1

\* content.js:470-487 startSessionTimer: the poll intervals armed after it
ArmSessionTimer(sess, hid, old, armed) ==
  IF sess = <<>> \/ hid THEN armed ELSE ClearInterval(old, armed) + 1

\* content.js:470-511 startSessionTimer: the new value of sessionTimer
StartSessionTimer(sess, hid, old) ==
  IF sess = <<>> \/ hid THEN old
  ELSE <<[due |-> now + PollMs, startTime |-> sess[1].startTime]>>

\* content.js:1283-1288 closeBlurPopupOnOutsideClick, run after the click
\* handler of an element outside the blur control popup and its indicator
OutsideClick(popup, indicator) ==
  IF popup # "none" /\ indicator # "none" THEN "none" ELSE popup

\* nudge modals present in the page
DomNudges ==
  (IF nudgeModal = "none" THEN 0 ELSE 1) + orphans["session"] + orphans["post"]

\* a new modal element is stored in nudgeModal; the one it pointed to stays
\* in the page (content.js:778-794 and :1070-1086)
OrphansAfterShow ==
  IF nudgeModal = "none" THEN orphans
  ELSE [orphans EXCEPT ![nudgeModal] = @ + 1]

RemoveAt(seq, i) == SubSeq(seq, 1, i - 1) \o SubSeq(seq, i + 1, Len(seq))

InitPage ==
  /\ now = 0
  /\ hidden \in BOOLEAN
  /\ currentSession = <<>>
  /\ sessionTimer = <<>>
  /\ hiddenTime = 0
  /\ hiddenStartTime = Null
  /\ nudgeModal = "none"
  /\ orphans = [k \in Kinds |-> 0]
  /\ pendingNudges = <<>>
  /\ blurOverlay = FALSE
  /\ blurPx = Zero
  /\ blurBy = "none"
  /\ blurControlIndicator = "none"
  /\ blurControlPopup = "none"
  /\ isBlurActive = FALSE
  /\ intentPrompt = TRUE
  /\ sessionCompleteModal = FALSE
  /\ pendingStart = <<>>
  /\ pendingEnds = 0
  /\ pendingPostBlur = 0
  /\ pendingPopup = "none"
  /\ postSessionBlurTimer = <<>>
  /\ postCur = Zero
  /\ postMax = Zero
  /\ postSetting = 0
  /\ postTicks = 0
  /\ isPostSessionBlurActive = FALSE
  /\ postSessionBlurStartTime = Null
  /\ postSessionNudgeTimer = <<>>
  /\ firstNudgeTimeouts = <<>>
  /\ hiddenSpan = 0
  /\ extends = 0
  /\ late = 0
  /\ sessions = 0
  /\ nudgeText = ""
  /\ storedSession = <<>>
  /\ currentPlatform = Platform
  /\ blurSkipUntil = 0
  /\ armedPoll = 0
  /\ armedRamp = 0
  /\ armedNudge = 0
  /\ dailyUsage = 0
  /\ workerEnds = <<>>
  /\ popupSession = <<>>
  /\ sessionHistory = <<>>
  /\ dailyStats = [totalMs |-> 0, sessions |-> 0]
  /\ checkSessionAlarm = <<>>
  /\ settings = [enableBlur |-> TRUE, enableNudges |-> TRUE]
  /\ tabSession = <<>>
  /\ nudgeShown = FALSE
  /\ blurLevel = Zero
  /\ overlay = <<>>
  /\ tabNudge = "none"
  /\ monitorIntervals = <<>>
  /\ initialChecks = <<>>
  /\ dismissTimeouts = <<>>
  /\ pendingRequests = 0
  /\ nudgeRequests = 0
  /\ tabStarts = 0

\* the page is loaded for the first time: the store holds no history yet
Init == InitPage /\ storedSessions = <<>>

\* Something of the page will read the clock again: a session, a timer, a
\* timeout or a request in flight.
Waiting ==
  \/ HasSession
  \/ postSessionBlurTimer # <<>>
  \/ postSessionNudgeTimer # <<>>
  \/ isPostSessionBlurActive
  \/ firstNudgeTimeouts # <<>>
  \/ pendingNudges # <<>>

\* The clock moves; a hidden tab adds to the real hidden span of the session.
\* Answers of the worker that need only its local store (startSession,
\* endSession, storage reads) arrive before the clock reading changes; the
\* nudge text, which needs the network, may take any time. The clock is
\* measured net of the spans in which nothing of the page reads it.
Advance ==
  /\ now + StepMs <= MaxNow
  /\ Waiting
  /\ pendingStart = <<>> /\ pendingEnds = 0
  /\ pendingPostBlur = 0 /\ pendingPopup = "none"
  /\ now' = now + StepMs
  /\ hiddenSpan' = IF hidden /\ HasSession THEN hiddenSpan + StepMs ELSE hiddenSpan
  /\ UNCHANGED <<hidden, sessV, extends, sessions, late, nudgeV, blurV,
                 controlV, promptV, asyncV, rampV, postV,
                 workerV>>

\* A callback of the post-session phase is due and has not run yet.
PostCallbackDue ==
  \/ postSessionBlurTimer # <<>> /\ now >= postSessionBlurTimer[1]
  \/ postSessionNudgeTimer # <<>> /\ now >= postSessionNudgeTimer[1]
  \/ \E i \in 1..Len(firstNudgeTimeouts) : now >= firstNudgeTimeouts[i]

\* The clock of the post-session specification: the user has ended the
\* session and keeps browsing; at most MaxLate callbacks run late.
AdvanceRamp ==
  /\ now + RampStepMs <= MaxRampNow
  /\ ~HasSession
  /\ pendingStart = <<>> /\ pendingEnds = 0
  /\ pendingPostBlur = 0 /\ pendingPopup = "none"
  /\ Waiting
  /\ PostCallbackDue => late < MaxLate
  /\ late' = IF PostCallbackDue THEN late + 1 ELSE late
  /\ now' = now + RampStepMs
  /\ UNCHANGED <<hidden, sessV, hiddenSpan, extends, sessions, nudgeV, blurV,
                 controlV, promptV, asyncV, rampV, postV,
                 workerV>>

\* every hidden event restarts the hidden interval
RestartHiddenInterval(start) == IF HasSession THEN now ELSE start

\* content.js:134-136, hiddenStartTime after a hidden event
OpenHiddenInterval(start) ==
  IF HasSession /\ start = Null THEN now ELSE start

\* content.js:125-140, visibilitychange with document.hidden true
TabHidden ==
  /\ ~hidden
  /\ hidden' = TRUE
  /\ sessionTimer' = <<>>
  /\ armedPoll' = ClearInterval(sessionTimer, armedPoll)
  /\ hiddenStartTime' = OpenHiddenInterval(hiddenStartTime)
  /\ UNCHANGED <<clockV, currentSession, hiddenTime, histV, nudgeV, blurV,
                 controlV, promptV, asyncV, rampV, postV,
                 workerV>>

\* the last hidden span overwrites the total (= for +=)
AccumulateHiddenOverwrite(total, start) == now - start

\* the whole timestamp is added, not the span
AccumulateHiddenFromEpoch(total, start) == total + now

\* the span with its operands exchanged
AccumulateHiddenSigned(total, start) == total + (start - now)

\* content.js:145, hiddenTime += Date.now() - hiddenStartTime
AccumulateHidden(total, start) == total + (now - start)

\* the hidden interval stays open after it was added
KeepHiddenInterval(start) == start

\* content.js:146, hiddenStartTime = null
CloseHiddenInterval(start) == Null

\* content.js:141-156, visibilitychange with document.hidden false
TabVisible ==
  /\ hidden
  /\ hidden' = FALSE
  /\ IF hiddenStartTime # Null /\ HasSession
       THEN /\ hiddenTime' = AccumulateHidden(hiddenTime, hiddenStartTime)
            /\ hiddenStartTime' = CloseHiddenInterval(hiddenStartTime)
       ELSE UNCHANGED <<hiddenTime, hiddenStartTime>>
  /\ sessionTimer' =
       IF HasSession /\ sessionTimer = <<>>
         THEN StartSessionTimer(currentSession, FALSE, sessionTimer)
         ELSE sessionTimer
  /\ armedPoll' =
       IF HasSession /\ sessionTimer = <<>>
         THEN ArmSessionTimer(currentSession, FALSE, sessionTimer, armedPoll)
         ELSE armedPoll
  /\ UNCHANGED <<clockV, currentSession, histV, nudgeV, blurV, controlV,
                 promptV, asyncV, rampV, postV,
                 workerV>>

\* content.js:125-140, a visibilitychange event that finds document.hidden
\* true as the event before it did (the page can dispatch the event itself)
HiddenRepeat ==
  /\ hidden
  /\ sessionTimer' = <<>>
  /\ armedPoll' = ClearInterval(sessionTimer, armedPoll)
  /\ hiddenStartTime' = OpenHiddenInterval(hiddenStartTime)
  /\ UNCHANGED <<clockV, hidden, currentSession, hiddenTime, histV, nudgeV,
                 blurV, controlV, promptV, asyncV, rampV, postV, workerV>>

\* content.js:141-156, a visibilitychange event that finds document.hidden
\* false as the event before it did
VisibleRepeat ==
  /\ ~hidden
  /\ IF hiddenStartTime # Null /\ HasSession
       THEN /\ hiddenTime' = AccumulateHidden(hiddenTime, hiddenStartTime)
            /\ hiddenStartTime' = CloseHiddenInterval(hiddenStartTime)
       ELSE UNCHANGED <<hiddenTime, hiddenStartTime>>
  /\ sessionTimer' =
       IF HasSession /\ sessionTimer = <<>>
         THEN StartSessionTimer(currentSession, FALSE, sessionTimer)
         ELSE sessionTimer
  /\ armedPoll' =
       IF HasSession /\ sessionTimer = <<>>
         THEN ArmSessionTimer(currentSession, FALSE, sessionTimer, armedPoll)
         ELSE armedPoll
  /\ UNCHANGED <<clockV, hidden, currentSession, histV, nudgeV, blurV,
                 controlV, promptV, asyncV, rampV, postV, workerV>>

\* content.js:313-317 and :422-438, an intent button is clicked:
\* startSessionWithIntent up to the await of the worker's answer
ClickIntent(minutes) ==
  /\ intentPrompt
  /\ pendingStart = <<>>
  /\ sessions < MaxSessions
  /\ intentPrompt' = FALSE
  /\ postSessionBlurTimer' = <<>>
  /\ postSessionNudgeTimer' = <<>>
  /\ armedRamp' = ClearInterval(postSessionBlurTimer, armedRamp)
  /\ armedNudge' = ClearInterval(postSessionNudgeTimer, armedNudge)
  /\ isPostSessionBlurActive' = FALSE
  /\ postSessionBlurStartTime' = Null
  /\ blurOverlay' = FALSE
  /\ blurPx' = Zero
  /\ blurBy' = "none"
  /\ blurControlIndicator' = "none"
  /\ isBlurActive' = FALSE
  /\ pendingStart' = <<minutes>>
  /\ UNCHANGED <<clockV, hidden, sessV, histV, nudgeV, blurControlPopup,
                 sessionCompleteModal, pendingEnds, pendingPostBlur,
                 pendingPopup, postCur, postMax, postSetting, postTicks,
                 firstNudgeTimeouts,
                 workerV>>

\* background.js:228-238 startSession(intent, platform): the session the
\* worker writes to the store and its answer
WorkerStartSession(intent) ==
  [success |-> TRUE,
   session |-> [startTime |-> now, intendedTime |-> intent * MsPerMinute]]

\* content.js:440-458, the worker has stored the session and answered
\* (background.js:228-238)
StartResolve ==
  /\ pendingStart # <<>>
  /\ WorkerStartSession(pendingStart[1]).success
  /\ storedSession' = <<WorkerStartSession(pendingStart[1]).session>>
  /\ pendingStart' = <<>>
  /\ hiddenTime' = 0
  /\ currentSession' = <<[startTime |-> now,
                          intendedTime |-> pendingStart[1] * MsPerMinute]>>
  /\ hiddenStartTime' = IF hidden THEN now ELSE Null
  /\ sessionTimer' = StartSessionTimer(currentSession', hidden, sessionTimer)
  /\ armedPoll' = ArmSessionTimer(currentSession', hidden, sessionTimer,
                                  armedPoll)
  /\ hiddenSpan' = 0
  /\ sessions' = sessions + 1
  /\ UNCHANGED <<clockV, hidden, extends, late, nudgeV, blurV, controlV,
                 promptV, pendingEnds, pendingPostBlur, pendingPopup, rampV,
                 postV, storedSessions, dailyUsage, workerEnds, tabV,
                 currentPlatform, blurSkipUntil>>

\* what keeps the worker from storing the session: the worker cannot be
\* reached (sendMessage rejects) or its chrome.storage.local.set rejects
\* (no answer is sent, background.js:191-193 and :236)
StoreFailures == {"worker", "store"}

\* content.js:433-440, startSessionWithIntent after the await when the
\* session was not stored: sendMessage threw, or the response is undefined
\* and the branch of response.success is skipped
StartFail(failure) ==
  /\ failure \in StoreFailures
  /\ pendingStart # <<>>
  /\ pendingStart' = <<>>
  /\ UNCHANGED <<clockV, hidden, sessV, histV, nudgeV, blurV, controlV,
                 promptV, pendingEnds, pendingPostBlur, pendingPopup, rampV,
                 postV, workerV>>

\* content.js:237-251, the runtime message 'sessionStarted'
SessionStartedMsg(minutes) ==
  /\ sessions < MaxSessions
  /\ currentSession' = <<[startTime |-> now,
                          intendedTime |-> minutes * MsPerMinute]>>
  /\ hiddenTime' = 0
  /\ hiddenStartTime' = IF hidden THEN now ELSE Null
  /\ sessionTimer' = StartSessionTimer(currentSession', hidden, sessionTimer)
  /\ armedPoll' = ArmSessionTimer(currentSession', hidden, sessionTimer,
                                  armedPoll)
  /\ hiddenSpan' = 0
  /\ sessions' = sessions + 1
  /\ UNCHANGED <<clockV, hidden, extends, late, nudgeV, blurV, controlV,
                 promptV, asyncV, rampV, postV,
                 workerV>>

\* content.js:729-748 applyProgressiveBlur(percent)
ApplyProgressiveBlur(percent) ==
  LET blurPixels == SessionBlurPixels(percent) IN
  /\ blurOverlay' = TRUE
  /\ blurPx' = blurPixels
  /\ blurBy' = "session"
  /\ IF RLt(IndicatorMinPx, blurPixels) /\ ~isBlurActive
       THEN /\ isBlurActive' = TRUE
            /\ blurControlIndicator' =
                 IF blurControlIndicator = "none" THEN "session"
                 ELSE blurControlIndicator
       ELSE UNCHANGED <<isBlurActive, blurControlIndicator>>

\* content.js:487-510, the session poll callback up to its first await
\* (showNudge up to the request for the text, content.js:760-775), or to
\* its end when no nudge is requested
SessionTick ==
  /\ sessionTimer # <<>>
  /\ now >= sessionTimer[1].due
  /\ LET intendedTime == IF HasSession THEN Session.intendedTime ELSE 0
         elapsed == EffectiveElapsed(sessionTimer[1].startTime)
     IN IF elapsed > intendedTime /\ nudgeModal = "none"
          THEN /\ Len(pendingNudges) < MaxPending
               /\ pendingNudges' = Append(pendingNudges,
                    [kind |-> "session", elapsed |-> elapsed,
                     intendedTime |-> intendedTime])
               /\ UNCHANGED <<blurV, controlV>>
          ELSE /\ IF elapsed > intendedTime
                    THEN /\ ApplyProgressiveBlur(
                              SessionBlurPercent(elapsed, intendedTime))
                         /\ UNCHANGED blurControlPopup
                    ELSE UNCHANGED <<blurV, controlV>>
               /\ UNCHANGED pendingNudges
  /\ sessionTimer' = <<[sessionTimer[1] EXCEPT !.due = now + PollMs]>>
  /\ UNCHANGED armedPoll
  /\ UNCHANGED <<clockV, hidden, currentSession, hiddenTime, hiddenStartTime,
                 histV, nudgeModal, nudgeText, orphans, promptV, asyncV, rampV, postV,
                 workerV>>

\* what became of the worker's request to the text provider: a text, no
\* API key stored, fetch threw, a response that is not ok, an empty text
Outcomes == {"text", "nokey", "network", "notok", "empty"}

\* JavaScript undefined as a message; the modal's template renders it as
\* the text "undefined"
Undefined == "undefined"

\* the keys of the messages object of generateFallbackMessage
OwnTones == {"encouraging", "neutral", "direct"}

\* property names every object inherits from Object.prototype: messages[tone]
\* is a function for them, and an element of a function is undefined
InheritedKeys == {"constructor", "toString"}

\* values of the tone argument: the three of the options page, one that is
\* no property of an object, the empty string, and an inherited name
Tones == OwnTones \cup {"playful", ""} \cup InheritedKeys

\* the tone of the default preferences (background.js:80, content.js:766)
DefaultTone == "encouraging"

\* background.js:410-463, the templates by context and tone (one string
\* stands for the five templates of a tone, none of which is empty)
Messages(intendedTime) ==
  IF intendedTime = 0
    THEN [encouraging |-> "fallback post-session",
          neutral |-> "neutral post-session",
          direct |-> "direct post-session"]
    ELSE [encouraging |-> "fallback session",
          neutral |-> "neutral session",
          direct |-> "direct session"]

\* background.js:404-468 generateFallbackMessage: a template of
\* messages[tone] || messages.encouraging
GenerateFallbackMessage(intendedTime, tone) ==
  LET messages == Messages(intendedTime)
  IN IF tone \in OwnTones THEN messages[tone]
     ELSE IF tone \in InheritedKeys THEN Undefined
     ELSE messages.encouraging

\* the worker returns the provider's text as it came
GetAINudgeUnchecked(intendedTime, outcome) ==
  IF outcome = "text" THEN "ai" ELSE ""

\* background.js:318-392 getAINudge: the text the worker answers with
GetAINudge(intendedTime, outcome) ==
  LET aiMessage == IF outcome = "text" THEN "ai" ELSE ""
  IN IF outcome = "nokey"
       THEN GenerateFallbackMessage(intendedTime, DefaultTone)
     ELSE IF outcome \in {"network", "notok"}
       THEN GenerateFallbackMessage(intendedTime, DefaultTone)
     ELSE IF aiMessage # "" THEN aiMessage
     ELSE GenerateFallbackMessage(intendedTime, DefaultTone)

\* content.js:777-794 and :1069-1086, the nudge text arrived: the modal is
\* created; for a session nudge the poll callback then goes on with the
\* elapsed and intended time it read before the await (content.js:504-509)
NudgeResolve(i, outcome) ==
  /\ i \in 1..Len(pendingNudges)
  /\ outcome \in Outcomes
  /\ nudgeModal # "none" =>
       orphans["session"] + orphans["post"] < MaxOrphans
  /\ LET p == pendingNudges[i] IN
       /\ nudgeModal' = p.kind
       /\ nudgeText' = GetAINudge(p.intendedTime \div MsPerMinute, outcome)
       /\ orphans' = OrphansAfterShow
       /\ pendingNudges' = RemoveAt(pendingNudges, i)
       /\ IF p.kind = "session" /\ p.elapsed > p.intendedTime
            THEN /\ ApplyProgressiveBlur(
                      SessionBlurPercent(p.elapsed, p.intendedTime))
                 /\ UNCHANGED blurControlPopup
            ELSE UNCHANGED <<blurV, controlV>>
  /\ UNCHANGED <<clockV, hidden, sessV, histV, promptV, asyncV, rampV, postV,
                 workerV>>

\* content.js:829-830, actualTime of the endSession message to the worker
ActualTime == EffectiveElapsed(Session.startTime)

\* content.js:825-837, endSession up to the await of the worker's answer.
\* via: the "Done for now" button of the modal nudgeModal points to or of
\* an unreferenced one (content.js:797-799), or the 'endSession' runtime
\* message (content.js:253-258)
EndSessionCall(via) ==
  /\ via \in {"current", "orphan", "message"}
  /\ via = "current" => nudgeModal = "session"
  /\ via = "orphan" => orphans["session"] > 0
  /\ IF HasSession
       THEN /\ pendingEnds < MaxPendingEnds
            /\ pendingEnds' = pendingEnds + 1
       ELSE UNCHANGED pendingEnds
  /\ UNCHANGED workerV
  /\ blurControlPopup' =
       IF via = "message" THEN blurControlPopup
       ELSE OutsideClick(blurControlPopup, blurControlIndicator)
  /\ UNCHANGED <<clockV, hidden, sessV, histV, nudgeV, blurV,
                 blurControlIndicator, isBlurActive, promptV, pendingStart,
                 pendingPostBlur, pendingPopup, rampV, postV>>

\* background.js:246-277 endSession: currentSession of the store after the
\* worker has recorded the session
WorkerEndSession(stored) == <<>>

\* content.js:839-870, endSession after the await
EndCleanup ==
  /\ sessionTimer' = <<>>
  /\ armedPoll' = ClearInterval(sessionTimer, armedPoll)
  /\ blurPx' = Zero
  /\ blurBy' = "none"
  /\ blurControlIndicator' = "none"
  /\ isBlurActive' = FALSE
  /\ nudgeModal' = "none"
  /\ nudgeText' = ""
  /\ currentSession' = <<>>
  /\ hiddenTime' = 0
  /\ hiddenStartTime' = Null
  /\ sessionCompleteModal' = TRUE
  /\ hiddenSpan' = 0
  /\ UNCHANGED <<clockV, hidden, extends, sessions, late, orphans, pendingNudges, blurOverlay,
                 blurControlPopup, intentPrompt, pendingStart,
                 pendingPostBlur, pendingPopup, rampV, postV>>

\* content.js:839-870, endSession after the worker has recorded the session
\* and answered (background.js:246-277). Of the worker's store only
\* currentSession is followed here; the history and the usage it writes are
\* followed by the steps of the worker below.
EndResolve ==
  /\ pendingEnds > 0
  /\ pendingEnds' = pendingEnds - 1
  /\ storedSession' = WorkerEndSession(storedSession)
  /\ UNCHANGED <<storedSessions, dailyUsage, workerEnds, tabV,
                 currentPlatform, blurSkipUntil>>
  /\ EndCleanup

\* content.js:832-836, the endSession message on its way to the worker and
\* what the worker's handler of it holds: how far it has come, the history
\* it will write, the minutes it adds and the usage it has read
EndMessage(actualTime) ==
  [stage |-> "sent", actualTime |-> actualTime, sessions |-> <<>>,
   minutes |-> 0, usage |-> 0]

\* content.js:825-837, endSession up to the await, with the message to the
\* worker followed. currentSession is set to null only after the await
\* (content.js:862), so a call made while an earlier one still awaits the
\* worker passes the test of line 826 and sends a message of its own.
EndSessionSend(via) ==
  /\ via \in {"current", "orphan", "message"}
  /\ via = "current" => nudgeModal = "session"
  /\ via = "orphan" => orphans["session"] > 0
  /\ IF HasSession
       THEN /\ pendingEnds < MaxConcurrentEnds
            /\ pendingEnds' = pendingEnds + 1
            /\ workerEnds' = Append(workerEnds, EndMessage(ActualTime))
       ELSE UNCHANGED <<pendingEnds, workerEnds>>
  /\ blurControlPopup' =
       IF via = "message" THEN blurControlPopup
       ELSE OutsideClick(blurControlPopup, blurControlIndicator)
  /\ UNCHANGED <<clockV, hidden, sessV, histV, nudgeV, blurV,
                 blurControlIndicator, isBlurActive, promptV, pendingStart,
                 pendingPostBlur, pendingPopup, rampV, postV, storeV, tabV,
                 currentPlatform, blurSkipUntil>>

\* background.js:256, Math.round(actualTime / 60000): the nearest minute,
\* a half rounded up
RoundMinutes(ms) == (2 * ms + MsPerMinute) \div (2 * MsPerMinute)

\* background.js:253-258, the record of a session; platform and date are
\* left out
SessionData(session, actualTime) ==
  [intendedTime |-> session.intendedTime \div MsPerMinute,
   actualTime |-> RoundMinutes(actualTime)]

\* background.js:260-266, sessions.push(sessionData) and the shift() that
\* keeps the last 100
PushSession(history, record) ==
  LET pushed == Append(history, record)
  IN  IF Len(pushed) > HistoryCap THEN Tail(pushed) ELSE pushed

\* background.js:285-302 updateDailyUsage on the day of the last reset:
\* the platform's minutes after the addition
UpdateDailyUsage(usage, minutes) == usage + minutes

\* background.js:247-266, the worker's endSession up to its first storage
\* write: the store as the get of line 247 returns it, and the history the
\* handler will write
WorkerEndGet(i) ==
  /\ i \in 1..Len(workerEnds)
  /\ workerEnds[i].stage = "sent"
  /\ workerEnds' =
       [workerEnds EXCEPT ![i] =
          IF storedSession # <<>>
            THEN [workerEnds[i] EXCEPT
                    !.stage = "read",
                    !.sessions =
                      PushSession(storedSessions,
                                  SessionData(storedSession[1],
                                              workerEnds[i].actualTime)),
                    !.minutes = RoundMinutes(workerEnds[i].actualTime)]
            ELSE [workerEnds[i] EXCEPT !.stage = "done"]]
  /\ UNCHANGED <<clockV, hidden, sessV, histV, nudgeV, blurV, controlV,
                 promptV, asyncV, rampV, postV, storeV, tabV,
                 currentPlatform, blurSkipUntil>>

\* background.js:268-271, the write of the history and of a null
\* currentSession
WorkerEndSet(i) ==
  /\ i \in 1..Len(workerEnds)
  /\ workerEnds[i].stage = "read"
  /\ storedSessions' = workerEnds[i].sessions
  /\ storedSession' = WorkerEndSession(storedSession)
  /\ workerEnds' = [workerEnds EXCEPT ![i].stage = "written"]
  /\ UNCHANGED <<clockV, hidden, sessV, histV, nudgeV, blurV, controlV,
                 promptV, asyncV, rampV, postV, dailyUsage, tabV,
                 currentPlatform, blurSkipUntil>>

\* background.js:273 and :285-294, updateDailyUsage up to its write: the
\* usage as the get of line 287 returns it
WorkerUsageGet(i) ==
  /\ i \in 1..Len(workerEnds)
  /\ workerEnds[i].stage = "written"
  /\ workerEnds' = [workerEnds EXCEPT ![i].stage = "usage",
                                      ![i].usage = dailyUsage]
  /\ UNCHANGED <<clockV, hidden, sessV, histV, nudgeV, blurV, controlV,
                 promptV, asyncV, rampV, postV, storeV, tabV,
                 currentPlatform, blurSkipUntil>>

\* background.js:296-302, the write of the usage, and the answer of
\* endSession (background.js:276)
WorkerUsageSet(i) ==
  /\ i \in 1..Len(workerEnds)
  /\ workerEnds[i].stage = "usage"
  /\ dailyUsage' =
       UpdateDailyUsage(workerEnds[i].usage, workerEnds[i].minutes)
  /\ workerEnds' = [workerEnds EXCEPT ![i].stage = "done"]
  /\ UNCHANGED <<clockV, hidden, sessV, histV, nudgeV, blurV, controlV,
                 promptV, asyncV, rampV, postV, storedSession,
                 storedSessions, tabV,
                 currentPlatform, blurSkipUntil>>

\* content.js:839-870, endSession after the worker has answered one of the
\* calls in flight
EndContinue(i) ==
  /\ i \in 1..Len(workerEnds)
  /\ workerEnds[i].stage = "done"
  /\ pendingEnds' = pendingEnds - 1
  /\ workerEnds' = RemoveAt(workerEnds, i)
  /\ UNCHANGED <<storeV, tabV,
                 currentPlatform, blurSkipUntil>>
  /\ EndCleanup

\* content.js:804, currentSession.intendedTime += 10 * 60000
Extended(sess) == <<[sess[1] EXCEPT !.intendedTime = @ + ExtendMs]>>

\* content.js:801-814, "Continue 10 more min" of the modal nudgeModal points
\* to (target "current") or of an unreferenced session modal ("orphan").
\* With nudgeModal null, nudgeModal.remove() throws after the extension.
ContinueClick(target) ==
  /\ target \in {"current", "orphan"}
  /\ target = "current" => nudgeModal = "session"
  /\ target = "orphan" => orphans["session"] > 0
  /\ IF HasSession
       THEN /\ extends < MaxExtends
            /\ extends' = extends + 1
            /\ currentSession' = Extended(currentSession)
            /\ IF nudgeModal # "none"
                 THEN /\ nudgeModal' = "none"
                      /\ nudgeText' = ""
                      /\ blurPx' = Zero
                      /\ blurBy' = "none"
                      /\ blurControlIndicator' = "none"
                      /\ isBlurActive' = FALSE
                 ELSE UNCHANGED <<nudgeModal, nudgeText, blurPx, blurBy,
                                  blurControlIndicator, isBlurActive>>
       ELSE UNCHANGED <<extends, currentSession, nudgeModal, nudgeText, blurPx, blurBy,
                        blurControlIndicator, isBlurActive>>
  /\ blurControlPopup' = OutsideClick(blurControlPopup, blurControlIndicator')
  /\ UNCHANGED <<clockV, hidden, sessionTimer, armedPoll, hiddenTime, hiddenStartTime,
                 hiddenSpan, sessions, late, orphans, pendingNudges,
                 blurOverlay, promptV,
                 asyncV, rampV, postV,
                 workerV>>

\* content.js:895-902, "Start New Session" of the completion modal
CompleteStartNew ==
  /\ sessionCompleteModal
  /\ sessionCompleteModal' = FALSE
  /\ intentPrompt' = TRUE
  /\ blurControlPopup' = OutsideClick(blurControlPopup, blurControlIndicator)
  /\ UNCHANGED <<clockV, hidden, sessV, histV, nudgeV, blurV,
                 blurControlIndicator, isBlurActive, asyncV, rampV, postV,
                 workerV>>

\* content.js:904-933, "Continue Browsing", a click on the backdrop or the
\* Escape key: startPostSessionBlur up to the await of the preferences
CompleteDismiss(via) ==
  /\ via \in {"click", "escape"}
  /\ sessionCompleteModal
  /\ pendingPostBlur < MaxPendingPostBlur
  /\ sessionCompleteModal' = FALSE
  /\ pendingPostBlur' = pendingPostBlur + 1
  /\ blurControlPopup' =
       IF via = "click"
         THEN OutsideClick(blurControlPopup, blurControlIndicator)
         ELSE blurControlPopup
  /\ UNCHANGED <<clockV, hidden, sessV, histV, nudgeV, blurV,
                 blurControlIndicator, isBlurActive, intentPrompt,
                 pendingStart, pendingEnds, pendingPopup, rampV, postV,
                 workerV>>

\* content.js:948-1026 with :1029-1047, startPostSessionBlur after the
\* preferences were read; setting is the stored blurIntensity
PostBlurResume(setting) ==
  /\ pendingPostBlur > 0
  /\ pendingPostBlur' = pendingPostBlur - 1
  /\ postMax' = MaxBlurPixels(setting)
  /\ postSetting' = setting
  /\ isPostSessionBlurActive' = TRUE
  /\ isBlurActive' = TRUE
  /\ postSessionBlurStartTime' = now
  /\ blurControlIndicator' =
       IF blurControlIndicator = "none" THEN "post-session"
       ELSE blurControlIndicator
  /\ blurOverlay' = TRUE
  /\ blurPx' = Zero
  /\ blurBy' = "post"
  /\ postCur' = Zero
  /\ postTicks' = 0
  /\ postSessionBlurTimer' = <<now + StepInterval>>
  /\ armedRamp' = ClearInterval(postSessionBlurTimer, armedRamp) + 1
  /\ firstNudgeTimeouts' = Append(firstNudgeTimeouts, now + FirstNudgeDelay)
  /\ postSessionNudgeTimer' = <<now + NudgeInterval>>
  /\ armedNudge' = ClearInterval(postSessionNudgeTimer, armedNudge) + 1
  /\ UNCHANGED <<clockV, hidden, sessV, histV, nudgeV, blurControlPopup,
                 promptV, pendingStart, pendingEnds, pendingPopup,
                 workerV>>

\* setInterval after a callback that was due at `due` has run: the next one
\* is due one period after the run or one period after the missed due time,
\* as the browser's timer chooses
Rearm(due, period) == {now + period, due + period}

\* a ramp of blurDuration / 1000 steps, one per second
RampStepPerSecond(cur, max) ==
  LET next == RAdd(cur, RDiv(max, R(BlurDuration \div 1000)))
  IN IF RLeq(max, next) THEN max ELSE next

\* a ramp that starts again from 0 when it has reached the maximum
RampStepReset(cur, max) ==
  LET next == RAdd(cur, RDiv(max, R(BlurSteps)))
  IN IF RLeq(max, next) THEN Zero ELSE next

\* content.js:993-1000, currentBlurPixels after one more step of the ramp
RampStep(cur, max) ==
  LET next == RAdd(cur, RDiv(max, R(BlurSteps)))
  IN IF RLeq(max, next) THEN max ELSE next

\* content.js:992-1023, the ramp interval callback. Without an overlay
\* element, blurOverlay.style throws and the rest of the callback is lost.
RampTick ==
  /\ postSessionBlurTimer # <<>>
  /\ now >= postSessionBlurTimer[1]
  /\ \E next \in Rearm(postSessionBlurTimer[1], StepInterval) :
     LET cur == RampStep(postCur, postMax)
         rearmed == IF cur = postMax THEN <<>> ELSE <<next>>
         atMax == IF cur = postMax
                    THEN ClearInterval(postSessionBlurTimer, armedRamp)
                    ELSE armedRamp
     IN /\ postCur' = cur
        /\ postTicks' = postTicks + 1
        /\ IF ~blurOverlay
             THEN /\ postSessionBlurTimer' = rearmed
                  /\ armedRamp' = atMax
                  /\ UNCHANGED <<blurV, postV>>
             ELSE IF HasSession
               THEN /\ postSessionBlurTimer' = <<>>
                    /\ armedRamp' = ClearInterval(rearmed, atMax)
                    /\ isPostSessionBlurActive' = FALSE
                    /\ postSessionBlurStartTime' = Null
                    /\ blurPx' = Zero
                    /\ blurBy' = "none"
                    /\ postSessionNudgeTimer' = <<>>
                    /\ armedNudge' =
                         ClearInterval(postSessionNudgeTimer, armedNudge)
                    /\ UNCHANGED <<blurOverlay, firstNudgeTimeouts>>
               ELSE /\ postSessionBlurTimer' = rearmed
                    /\ armedRamp' = atMax
                    /\ blurPx' = RMin(cur, postMax)
                    /\ blurBy' = "post"
                    /\ UNCHANGED <<blurOverlay, postV>>
  /\ UNCHANGED <<clockV, hidden, sessV, histV, nudgeV, controlV, promptV,
                 asyncV, postMax, postSetting,
                 workerV>>

\* content.js:1032 and :1039, the test both post-session nudge timers make
PostNudgeDue == isPostSessionBlurActive /\ ~HasSession /\ nudgeModal = "none"

\* content.js:1049-1067, showPostSessionNudge up to the await of the text
RequestPostNudge ==
  Append(pendingNudges, [kind |-> "post", elapsed |-> 0, intendedTime |-> 0])

\* content.js:1031-1035, the 30 s timeout of startPostSessionNudges
FirstNudgeTimeout(i) ==
  /\ i \in 1..Len(firstNudgeTimeouts)
  /\ now >= firstNudgeTimeouts[i]
  /\ firstNudgeTimeouts' = RemoveAt(firstNudgeTimeouts, i)
  /\ IF PostNudgeDue
       THEN /\ Len(pendingNudges) < MaxPending
            /\ pendingNudges' = RequestPostNudge
       ELSE UNCHANGED pendingNudges
  /\ UNCHANGED <<clockV, hidden, sessV, histV, nudgeModal, nudgeText, orphans, blurV,
                 controlV, promptV, asyncV, rampV, isPostSessionBlurActive,
                 postSessionBlurStartTime, postSessionNudgeTimer, armedNudge,
                 workerV>>

\* content.js:1038-1046, the 45 s interval of startPostSessionNudges
NudgeIntervalTick ==
  /\ postSessionNudgeTimer # <<>>
  /\ now >= postSessionNudgeTimer[1]
  /\ IF PostNudgeDue
       THEN /\ Len(pendingNudges) < MaxPending
            /\ pendingNudges' = RequestPostNudge
            /\ \E next \in Rearm(postSessionNudgeTimer[1], NudgeInterval) :
                 postSessionNudgeTimer' = <<next>>
            /\ UNCHANGED armedNudge
       ELSE /\ UNCHANGED pendingNudges
            /\ IF ~isPostSessionBlurActive \/ HasSession
                 THEN /\ postSessionNudgeTimer' = <<>>
                      /\ armedNudge' =
                           ClearInterval(postSessionNudgeTimer, armedNudge)
                 ELSE /\ \E next \in Rearm(postSessionNudgeTimer[1],
                                           NudgeInterval) :
                           postSessionNudgeTimer' = <<next>>
                      /\ UNCHANGED armedNudge
  /\ UNCHANGED <<clockV, hidden, sessV, histV, nudgeModal, nudgeText, orphans, blurV,
                 controlV, promptV, asyncV, rampV, isPostSessionBlurActive,
                 postSessionBlurStartTime, firstNudgeTimeouts,
                 workerV>>

\* content.js:1089-1104, "Start New Session" of a post-session nudge
PostStartClick(target) ==
  /\ target \in {"current", "orphan"}
  /\ target = "current" => nudgeModal = "post"
  /\ target = "orphan" => orphans["post"] > 0
  /\ nudgeModal' = "none"
  /\ nudgeText' = ""
  /\ postSessionBlurTimer' = <<>>
  /\ postSessionNudgeTimer' = <<>>
  /\ armedRamp' = ClearInterval(postSessionBlurTimer, armedRamp)
  /\ armedNudge' = ClearInterval(postSessionNudgeTimer, armedNudge)
  /\ isPostSessionBlurActive' = FALSE
  /\ postSessionBlurStartTime' = Null
  /\ blurPx' = Zero
  /\ blurBy' = "none"
  /\ blurControlIndicator' = "none"
  /\ isBlurActive' = FALSE
  /\ intentPrompt' = TRUE
  /\ UNCHANGED <<clockV, hidden, sessV, histV, orphans, pendingNudges,
                 blurOverlay, blurControlPopup, sessionCompleteModal, asyncV,
                 postCur, postMax, postSetting, postTicks, firstNudgeTimeouts,
                 workerV>>

\* content.js:1106-1112, "Continue" of a post-session nudge
PostContinueClick(target) ==
  /\ target \in {"current", "orphan"}
  /\ target = "current" => nudgeModal = "post"
  /\ target = "orphan" => orphans["post"] > 0
  /\ nudgeModal' = "none"
  /\ nudgeText' = ""
  /\ blurControlPopup' = OutsideClick(blurControlPopup, blurControlIndicator)
  /\ UNCHANGED <<clockV, hidden, sessV, histV, orphans, pendingNudges, blurV,
                 blurControlIndicator, isBlurActive, promptV, asyncV, rampV,
                 postV,
                 workerV>>

\* content.js:1133 and :1136-1147, a click on the blur control indicator
IndicatorClick ==
  /\ blurControlIndicator # "none"
  /\ blurControlPopup' =
       IF blurControlPopup # "none" THEN "none" ELSE blurControlIndicator
  /\ UNCHANGED <<clockV, hidden, sessV, histV, nudgeV, blurV,
                 blurControlIndicator, isBlurActive, promptV, asyncV, rampV,
                 postV,
                 workerV>>

\* content.js:1187, the close button of the blur control popup
PopupClose ==
  /\ blurControlPopup # "none"
  /\ blurControlPopup' = "none"
  /\ UNCHANGED <<clockV, hidden, sessV, histV, nudgeV, blurV,
                 blurControlIndicator, isBlurActive, promptV, asyncV, rampV,
                 postV,
                 workerV>>

\* content.js:1189-1205, the first button of the blur control popup:
\* "Start New Session" of a post-session popup, "Extend Time" otherwise
PopupPrimary ==
  /\ blurControlPopup # "none"
  /\ blurControlPopup' = "none"
  /\ blurControlIndicator' = "none"
  /\ isBlurActive' = FALSE
  /\ blurOverlay' = FALSE
  /\ blurPx' = Zero
  /\ blurBy' = "none"
  /\ IF blurControlPopup = "post-session"
       THEN /\ intentPrompt' = TRUE
            /\ UNCHANGED <<currentSession, extends, nudgeModal, nudgeText>>
       ELSE /\ UNCHANGED intentPrompt
            /\ IF HasSession
                 THEN /\ extends < MaxExtends
                      /\ extends' = extends + 1
                      /\ currentSession' = Extended(currentSession)
                      /\ nudgeModal' = "none"
                      /\ nudgeText' = ""
                 ELSE UNCHANGED <<currentSession, extends, nudgeModal, nudgeText>>
  /\ UNCHANGED <<clockV, hidden, sessionTimer, armedPoll, hiddenTime, hiddenStartTime,
                 hiddenSpan, sessions, late, orphans, pendingNudges,
                 sessionCompleteModal, asyncV, rampV, postV,
                 workerV>>

\* content.js:1207-1217, :1225-1236 and :1250-1263, "Remove for 10 min"
\* (kind "remove") or one of the two disable buttons (kind "disable"), up
\* to the await of the store
PopupSecondaryPage(kind) ==
  /\ kind \in {"remove", "disable"}
  /\ blurControlPopup # "none"
  /\ pendingPopup = "none"
  /\ blurControlPopup' = "none"
  /\ blurControlIndicator' = "none"
  /\ isBlurActive' = FALSE
  /\ blurOverlay' = FALSE
  /\ blurPx' = Zero
  /\ blurBy' = "none"
  /\ pendingPopup' = kind
  /\ UNCHANGED <<clockV, hidden, sessV, histV, nudgeV, promptV, pendingStart,
                 pendingEnds, pendingPostBlur, rampV, postV,
                 storeV, currentPlatform, workerEnds, tabV>>

\* the handler where the skipUntil it computes is not followed
PopupSecondary(kind) ==
  PopupSecondaryPage(kind) /\ UNCHANGED blurSkipUntil

\* content.js:1207-1217, "Remove for 10 min" with the skipUntil it
\* computes and then stores
RemoveTemp ==
  PopupSecondaryPage("remove") /\ blurSkipUntil' = now + RemoveMs


\* content.js:1219-1222, :1238-1247 and :1265-1274, the popup handler after
\* the store was written
PopupResume ==
  /\ pendingPopup # "none"
  /\ pendingPopup' = "none"
  /\ postSessionBlurTimer' = <<>>
  /\ postSessionNudgeTimer' = <<>>
  /\ armedRamp' = ClearInterval(postSessionBlurTimer, armedRamp)
  /\ armedNudge' = ClearInterval(postSessionNudgeTimer, armedNudge)
  /\ isPostSessionBlurActive' = FALSE
  /\ postSessionBlurStartTime' = Null
  /\ IF pendingPopup = "disable"
       THEN /\ sessionTimer' = <<>>
            /\ armedPoll' = ClearInterval(sessionTimer, armedPoll)
            /\ currentSession' = <<>>
       ELSE UNCHANGED <<sessionTimer, armedPoll, currentSession>>
  /\ UNCHANGED <<clockV, hidden, hiddenTime, hiddenStartTime, histV, nudgeV,
                 blurV, controlV, promptV, pendingStart, pendingEnds,
                 pendingPostBlur, postCur, postMax, postSetting, postTicks,
                 firstNudgeTimeouts,
                 workerV>>

\* content.js:185-189, the session setupExtension resumes: the stored one
\* when currentPlatform of the store is the platform of the page
ResumedSession ==
  IF storedSession # <<>> /\ currentPlatform = Platform
    THEN storedSession ELSE <<>>

\* content.js:102-116 and :183-232, the page is loaded again: the script
\* starts with its initial state and setupExtension resumes the session of
\* the store or shows the intent prompt. Requests of the old page that
\* awaited the text of a nudge are lost with it.
Reload ==
  /\ pendingStart = <<>> /\ pendingEnds = 0
  /\ pendingPostBlur = 0 /\ pendingPopup = "none"
  /\ currentSession' = ResumedSession
  /\ hiddenTime' = 0
  /\ hiddenStartTime' = IF ResumedSession # <<>> /\ hidden THEN now ELSE Null
  /\ sessionTimer' = StartSessionTimer(ResumedSession, hidden, <<>>)
  /\ armedPoll' = ArmSessionTimer(ResumedSession, hidden, <<>>, 0)
  /\ armedRamp' = 0
  /\ armedNudge' = 0
  /\ nudgeModal' = "none"
  /\ nudgeText' = ""
  /\ orphans' = [k \in Kinds |-> 0]
  /\ pendingNudges' = <<>>
  /\ blurOverlay' = FALSE
  /\ blurPx' = Zero
  /\ blurBy' = "none"
  /\ blurControlIndicator' = "none"
  /\ blurControlPopup' = "none"
  /\ isBlurActive' = FALSE
  /\ intentPrompt' = (ResumedSession = <<>>)
  /\ sessionCompleteModal' = FALSE
  /\ postSessionBlurTimer' = <<>>
  /\ postCur' = Zero
  /\ postMax' = Zero
  /\ postSetting' = 0
  /\ postTicks' = 0
  /\ isPostSessionBlurActive' = FALSE
  /\ postSessionBlurStartTime' = Null
  /\ postSessionNudgeTimer' = <<>>
  /\ firstNudgeTimeouts' = <<>>
  /\ UNCHANGED <<clockV, hidden, histV, asyncV, workerV>>

\* The page while the user never keeps browsing after a session has ended.
Next ==
  \/ Advance
  \/ TabHidden
  \/ TabVisible
  \/ \E m \in IntentChoices : ClickIntent(m)
  \/ StartResolve
  \/ \E m \in IntentChoices : SessionStartedMsg(m)
  \/ SessionTick
  \/ \E i \in 1..MaxPending : NudgeResolve(i, "text")
  \/ \E via \in {"current", "orphan", "message"} : EndSessionCall(via)
  \/ EndResolve
  \/ \E target \in {"current", "orphan"} : ContinueClick(target)
  \/ CompleteStartNew
  \/ IndicatorClick
  \/ PopupClose
  \/ PopupPrimary
  \/ \E kind \in {"remove", "disable"} : PopupSecondary(kind)
  \/ PopupResume

Spec == Init /\ [][Next]_vars

\* The page while the tab stays visible and the user ends each session at
\* once and then keeps browsing: the post-session ramp and its nudges on a
\* clock grid of RampStepMs.
NextRamp ==
  \/ AdvanceRamp
  \/ \E m \in IntentChoices : ClickIntent(m)
  \/ StartResolve
  \/ EndSessionCall("message")
  \/ EndResolve
  \/ \E via \in {"click", "escape"} : CompleteDismiss(via)
  \/ \E setting \in BlurSettings : PostBlurResume(setting)
  \/ RampTick
  \/ \E i \in 1..MaxSessions : FirstNudgeTimeout(i)
  \/ NudgeIntervalTick
  \/ \E i \in 1..MaxPending : NudgeResolve(i, "text")
  \/ \E target \in {"current", "orphan"} : PostContinueClick(target)

\* the page is loaded in a visible tab
InitRamp == Init /\ ~hidden

SpecRamp == InitRamp /\ [][NextRamp]_vars

\* arguments startSessionWithIntent and the worker's startSession run with:
\* minutes of the intent buttons and a value that is not positive, which
\* neither of them excludes
StartInputs == {0, 1, 5}

\* The life of a session over reloads of the page: start, visibility
\* events, poll, nudge with any outcome of the text provider, extension,
\* end, and the page loaded again.
NextLife ==
  \/ Advance
  \/ TabHidden
  \/ TabVisible
  \/ HiddenRepeat
  \/ VisibleRepeat
  \/ \E m \in StartInputs : ClickIntent(m)
  \/ StartResolve
  \/ \E failure \in StoreFailures : StartFail(failure)
  \/ SessionTick
  \/ \E i \in 1..MaxPending : \E outcome \in Outcomes : NudgeResolve(i, outcome)
  \/ \E via \in {"current", "orphan", "message"} : EndSessionCall(via)
  \/ EndResolve
  \/ \E target \in {"current", "orphan"} : ContinueClick(target)
  \/ CompleteStartNew
  \/ Reload

SpecLife == Init /\ [][NextLife]_vars

\* background.js:86-131, a tab on the platform was activated or has
\* finished loading: handleTabChange writes currentPlatform unless the
\* store holds a session of that platform. Every session of the store is
\* one of the page, so its platform is Platform.
HandleTabChange(platform) ==
  /\ platform \in Platforms
  /\ storedSession = <<>> \/ Platform # platform
  /\ currentPlatform' = platform
  /\ UNCHANGED <<clockV, pageV, storeV, blurSkipUntil, workerEnds, tabV>>

\* The life of a session over reloads of the page while the user also
\* visits tabs of another platform.
NextLoad ==
  \/ NextLife
  \/ \E platform \in Platforms : HandleTabChange(platform)

SpecLoad == Init /\ [][NextLoad]_vars

\* A session of a visible tab whose user removes the blur for 10 minutes.
NextRemove ==
  \/ Advance
  \/ \E m \in IntentChoices : ClickIntent(m)
  \/ StartResolve
  \/ SessionTick
  \/ \E i \in 1..MaxPending : NudgeResolve(i, "text")
  \/ \E target \in {"current", "orphan"} : ContinueClick(target)
  \/ \E via \in {"current", "orphan", "message"} : EndSessionCall(via)
  \/ EndResolve
  \/ CompleteStartNew
  \/ IndicatorClick
  \/ PopupClose
  \/ RemoveTemp
  \/ PopupResume

InitRemove == Init /\ ~hidden

SpecRemove == InitRemove /\ [][NextRemove]_vars

\* Clicks, runtime messages and answers of the text provider reach the
\* page of the post-session specification at multiples of EventStepMs.
EventTime == now % EventStepMs = 0

\* The clock of the post-session phase while sessions may go on and every
\* timer callback runs when it is due.
AdvancePost ==
  /\ now + RampStepMs <= MaxPostNow
  /\ pendingStart = <<>> /\ pendingEnds = 0
  /\ pendingPostBlur = 0 /\ pendingPopup = "none"
  /\ Waiting
  /\ ~PostCallbackDue
  /\ ~(sessionTimer # <<>> /\ now >= sessionTimer[1].due)
  /\ now' = now + RampStepMs
  /\ UNCHANGED <<hidden, sessV, histV, nudgeV, blurV,
                 controlV, promptV, asyncV, rampV, postV,
                 workerV>>

\* The page in a visible tab after a session has ended and the user keeps
\* browsing, with every way out of the post-session phase: a new session
\* from the prompt or by the sessionStarted message, the buttons of the
\* post-session nudge and the blur control popup.
NextPost ==
  \/ AdvancePost
  \/ EventTime /\ ClickIntent(1)
  \/ StartResolve
  \/ EventTime /\ SessionStartedMsg(1)
  \/ SessionTick
  \/ EventTime /\ EndSessionCall("message")
  \/ EndResolve
  \/ EventTime /\ CompleteStartNew
  \/ EventTime /\ \E via \in {"click", "escape"} : CompleteDismiss(via)
  \/ PostBlurResume(PostBlurDefault)
  \/ RampTick
  \/ \E i \in 1..MaxSessions : FirstNudgeTimeout(i)
  \/ NudgeIntervalTick
  \/ EventTime /\ \E i \in 1..MaxPending : NudgeResolve(i, "text")
  \/ EventTime /\ \E target \in {"current", "orphan"} : PostStartClick(target)
  \/ EventTime /\ \E target \in {"current", "orphan"} : PostContinueClick(target)
  \/ EventTime /\ IndicatorClick
  \/ EventTime /\ PopupClose
  \/ EventTime /\ PopupPrimary
  \/ EventTime /\ \E kind \in {"remove", "disable"} : PopupSecondary(kind)
  \/ PopupResume

SpecPost == InitRamp /\ [][NextPost]_vars

\* background.js:253-266, a history of n records written by earlier pages:
\* sessions of 1, 2 or 5 intended minutes that each took longer than any
\* session of this page can
StoredHistory(n) ==
  [i \in 1..n |-> [intendedTime |-> IF i % 3 = 0 THEN 5 ELSE i % 3,
                   actualTime |-> 1000 + i]]

\* the page is loaded in a visible tab while the store holds no history, a
\* history one record short of full, or a full one
InitEnd ==
  /\ InitPage
  /\ ~hidden
  /\ storedSessions \in {StoredHistory(0), StoredHistory(HistoryCap - 1),
                         StoredHistory(HistoryCap)}

\* Sessions that are started from the prompt and ended from any surface,
\* also by calls that overlap, with every storage operation of the
\* worker's endSession a step of its own.
NextEnd ==
  \/ Advance
  \/ ClickIntent(1)
  \/ StartResolve
  \/ SessionTick
  \/ \E i \in 1..MaxPending : NudgeResolve(i, "text")
  \/ \E via \in {"current", "orphan", "message"} : EndSessionSend(via)
  \/ \E i \in 1..MaxConcurrentEnds : WorkerEndGet(i)
  \/ \E i \in 1..MaxConcurrentEnds : WorkerEndSet(i)
  \/ \E i \in 1..MaxConcurrentEnds : WorkerUsageGet(i)
  \/ \E i \in 1..MaxConcurrentEnds : WorkerUsageSet(i)
  \/ \E i \in 1..MaxConcurrentEnds : EndContinue(i)
  \/ CompleteStartNew

SpecEnd == InitEnd /\ [][NextEnd]_vars

\* ====================================================================
\* The popup-driven variant: src/popup.js starts and ends the session,
\* src/unnamed/part_002 (worker) keeps the alarm and notifies the tabs,
\* src/unnamed/part_000 (content script) monitors the session in a tab.
\* A message to the tab is handled as soon as it is sent.
\* ====================================================================

\* part_000:86, (Date.now() - currentSession.startTime) / 1000 / 60
TabElapsed(session) == Norm(now - session.startTime, MsPerMinute)

\* part_000:90, timeLimit * 0.8
BlurThreshold(timeLimit) == RMul(R(timeLimit), <<4, 5>>)

\* the level with its maximum at 100 % of the limit
TabBlurLevelEarly(elapsed, timeLimit) ==
  RMin(R(MaxBlurLevel),
       RMul(RDiv(RSub(elapsed, BlurThreshold(timeLimit)),
                 RMul(R(timeLimit), <<1, 5>>)),
            R(MaxBlurLevel)))

\* part_000:99-101, Math.min(10, (overTime / maxBlurTime) * 10)
TabBlurLevel(elapsed, timeLimit) ==
  RMin(R(MaxBlurLevel),
       RMul(RDiv(RSub(elapsed, BlurThreshold(timeLimit)),
                 RMul(R(timeLimit), <<1, 2>>)),
            R(MaxBlurLevel)))

\* part_000:83-104 updateBlurOverlay with applyBlurOverlay (106-123) and
\* removeBlurOverlay (125-130): blurLevel and the overlay after the call
UpdateBlurOverlay ==
  IF ~settings.enableBlur \/ tabSession = <<>>
    THEN [blurLevel |-> blurLevel, overlay |-> overlay]
    ELSE LET elapsed == TabElapsed(tabSession[1])
             timeLimit == tabSession[1].timeLimit
         IN  IF RLt(elapsed, BlurThreshold(timeLimit))
               THEN [blurLevel |-> blurLevel, overlay |-> <<>>]
               ELSE [blurLevel |-> TabBlurLevel(elapsed, timeLimit),
                     overlay |-> <<TabBlurLevel(elapsed, timeLimit)>>]

\* part_000:55-73 startMonitoring: a new interval and a new timeout; an
\* interval that runs already is not cleared
StartMonitoring ==
  /\ Len(monitorIntervals) < MaxMonitors
  /\ monitorIntervals' = Append(monitorIntervals, now + MonitorMs)
  /\ initialChecks' = Append(initialChecks, now + InitialCheckMs)

\* part_000:38-44, the tab handles SESSION_ACTIVE
SessionActive(session) ==
  /\ tabSession' = <<session>>
  /\ nudgeShown' = FALSE
  /\ blurLevel' = Zero
  /\ StartMonitoring

\* popup.js:51-74 startSession with the worker's handleSessionStart
\* (part_002:75-98) and the tab's SESSION_ACTIVE handler. The popup shows
\* the start form only while the store holds no active session
\* (popup.js:19-26).
PopupStartSession(timeLimit) ==
  /\ popupSession = <<>>
  /\ tabStarts < MaxTabSessions
  /\ tabStarts' = tabStarts + 1
  /\ popupSession' = <<[startTime |-> now, timeLimit |-> timeLimit]>>
  /\ checkSessionAlarm' = <<now + AlarmMs>>
  /\ SessionActive([startTime |-> now, timeLimit |-> timeLimit])
  /\ nudgeRequests' = 0
  /\ UNCHANGED <<clockV, pageV, storeV, currentPlatform,
                 blurSkipUntil, workerEnds, sessionHistory,
                 dailyStats, settings, overlay, tabNudge, dismissTimeouts,
                 pendingRequests>>

\* part_002:34-66, a tab is activated or has finished loading while the
\* session is active: the worker sends SESSION_ACTIVE again
TabNotified ==
  /\ popupSession # <<>>
  /\ SessionActive(popupSession[1])
  /\ UNCHANGED <<clockV, pageV, storeV, currentPlatform,
                 blurSkipUntil, workerEnds, popupSession,
                 sessionHistory, dailyStats, checkSessionAlarm, settings,
                 overlay, tabNudge, dismissTimeouts, pendingRequests,
                 nudgeRequests, tabStarts>>

\* part_000:4-32, the page is loaded: a new document, and init asks the
\* worker for the session (part_002:126-132)
PageLoad ==
  /\ tabSession' = popupSession
  /\ nudgeShown' = FALSE
  /\ blurLevel' = Zero
  /\ overlay' = <<>>
  /\ tabNudge' = "none"
  /\ monitorIntervals' =
       IF popupSession # <<>> THEN <<now + MonitorMs>> ELSE <<>>
  /\ initialChecks' =
       IF popupSession # <<>> THEN <<now + InitialCheckMs>> ELSE <<>>
  /\ dismissTimeouts' = <<>>
  /\ pendingRequests' = 0
  /\ nudgeRequests' = 0
  /\ UNCHANGED <<clockV, pageV, storeV, currentPlatform,
                 blurSkipUntil, workerEnds, popupSession,
                 sessionHistory, dailyStats, checkSessionAlarm, settings,
                 tabStarts>>

\* popup.js:97-116 saveSessionToHistory: the record of the session
HistoryEntry(session) ==
  [timeLimit |-> session.timeLimit, duration |-> now - session.startTime]

\* popup.js:118-138 updateDailyStats
UpdateDailyStats(stats, duration) ==
  [totalMs |-> stats.totalMs + duration, sessions |-> stats.sessions + 1]

\* popup.js:76-95 endSession with the worker's handleSessionEnd
\* (part_002:100-120) and the tab's SESSION_ENDED handler with
\* stopMonitoring (part_000:45-48 and 75-81)
PopupEndSession ==
  /\ popupSession # <<>>
  /\ sessionHistory' = PushSession(sessionHistory, HistoryEntry(popupSession[1]))
  /\ dailyStats' = UpdateDailyStats(dailyStats, now - popupSession[1].startTime)
  /\ popupSession' = <<>>
  /\ checkSessionAlarm' = <<>>
  /\ tabSession' = <<>>
  /\ overlay' = <<>>
  /\ tabNudge' = "none"
  /\ blurLevel' = Zero
  /\ nudgeShown' = FALSE
  /\ UNCHANGED <<clockV, pageV, storeV, currentPlatform,
                 blurSkipUntil, workerEnds, settings,
                 monitorIntervals, initialChecks, dismissTimeouts,
                 pendingRequests, nudgeRequests, tabStarts>>

\* part_000:145-168 showNudge up to the answer of the worker: one
\* REQUEST_NUDGE message
ShowNudge ==
  /\ nudgeRequests < MaxRequests
  /\ nudgeRequests' = nudgeRequests + 1
  /\ pendingRequests' = pendingRequests + 1

\* part_000:132-143 checkForNudge: the test that lets it show the nudge
NudgeIsDue ==
  /\ settings.enableNudges
  /\ tabSession # <<>>
  /\ ~nudgeShown
  /\ RLt(R(tabSession[1].timeLimit), TabElapsed(tabSession[1]))

\* part_000:59-67, a callback of a monitor interval
MonitorTick(i) ==
  /\ i \in 1..Len(monitorIntervals)
  /\ now >= monitorIntervals[i]
  /\ IF tabSession = <<>>
       THEN /\ monitorIntervals' = RemoveAt(monitorIntervals, i)
            /\ UNCHANGED <<blurLevel, overlay, nudgeShown, nudgeRequests,
                           pendingRequests>>
       ELSE /\ monitorIntervals' =
                 [monitorIntervals EXCEPT ![i] = @ + MonitorMs]
            /\ blurLevel' = UpdateBlurOverlay.blurLevel
            /\ overlay' = UpdateBlurOverlay.overlay
            /\ IF NudgeIsDue
                 THEN nudgeShown' = TRUE /\ ShowNudge
                 ELSE UNCHANGED <<nudgeShown, nudgeRequests, pendingRequests>>
  /\ UNCHANGED <<clockV, pageV, storeV, currentPlatform,
                 blurSkipUntil, workerEnds, popupSession,
                 sessionHistory, dailyStats, checkSessionAlarm, settings,
                 tabSession, tabNudge, initialChecks, dismissTimeouts,
                 tabStarts>>

\* part_000:70-72, the timeout of startMonitoring
InitialCheck(i) ==
  /\ i \in 1..Len(initialChecks)
  /\ now >= initialChecks[i]
  /\ initialChecks' = RemoveAt(initialChecks, i)
  /\ blurLevel' = UpdateBlurOverlay.blurLevel
  /\ overlay' = UpdateBlurOverlay.overlay
  /\ UNCHANGED <<clockV, pageV, storeV, currentPlatform,
                 blurSkipUntil, workerEnds, popupSession,
                 sessionHistory, dailyStats, checkSessionAlarm, settings,
                 tabSession, nudgeShown, tabNudge, monitorIntervals,
                 dismissTimeouts, pendingRequests, nudgeRequests, tabStarts>>

\* part_002:215-241, the checkSession alarm, with the tab's TIME_EXCEEDED
\* handler handleTimeExceeded (part_000:247-255), which calls showNudge
\* without setting nudgeShown
CheckSessionAlarm ==
  /\ checkSessionAlarm # <<>>
  /\ now >= checkSessionAlarm[1]
  /\ checkSessionAlarm' = <<checkSessionAlarm[1] + AlarmMs>>
  /\ IF /\ popupSession # <<>>
        /\ RLt(R(popupSession[1].timeLimit), TabElapsed(popupSession[1]))
       THEN /\ blurLevel' = UpdateBlurOverlay.blurLevel
            /\ overlay' = UpdateBlurOverlay.overlay
            /\ IF ~nudgeShown /\ tabSession # <<>>
                 THEN ShowNudge
                 ELSE UNCHANGED <<nudgeRequests, pendingRequests>>
       ELSE UNCHANGED <<blurLevel, overlay, nudgeRequests, pendingRequests>>
  /\ UNCHANGED <<clockV, pageV, storeV, currentPlatform,
                 blurSkipUntil, workerEnds, popupSession,
                 sessionHistory, dailyStats, settings, tabSession,
                 nudgeShown, tabNudge, monitorIntervals, initialChecks,
                 dismissTimeouts, tabStarts>>

\* part_000:163-167 and 170-204, the worker's answer (part_002:144-172)
\* and displayNudge
NudgeResponse ==
  /\ pendingRequests > 0
  /\ pendingRequests' = pendingRequests - 1
  /\ tabNudge' = "nudge"
  /\ dismissTimeouts' = Append(dismissTimeouts, now + NudgeDismissMs)
  /\ UNCHANGED <<clockV, pageV, storeV, currentPlatform,
                 blurSkipUntil, workerEnds, popupSession,
                 sessionHistory, dailyStats, checkSessionAlarm, settings,
                 tabSession, nudgeShown, blurLevel, overlay,
                 monitorIntervals, initialChecks, nudgeRequests, tabStarts>>

\* part_000:192-198 and 229-236, the buttons of the nudge and of the
\* reflection prompt
NudgeButton(button) ==
  /\ button \in {"reflect", "dismiss", "done", "continue"}
  /\ button \in {"reflect", "dismiss"} => tabNudge = "nudge"
  /\ button \in {"done", "continue"} => tabNudge = "reflection"
  /\ tabNudge' = IF button = "reflect" THEN "reflection" ELSE "none"
  /\ UNCHANGED <<clockV, pageV, storeV, currentPlatform,
                 blurSkipUntil, workerEnds, popupSession,
                 sessionHistory, dailyStats, checkSessionAlarm, settings,
                 tabSession, nudgeShown, blurLevel, overlay,
                 monitorIntervals, initialChecks, dismissTimeouts,
                 pendingRequests, nudgeRequests, tabStarts>>

\* part_000:200-203, the auto-dismiss timeout of a nudge
DismissTimeout(i) ==
  /\ i \in 1..Len(dismissTimeouts)
  /\ now >= dismissTimeouts[i]
  /\ dismissTimeouts' = RemoveAt(dismissTimeouts, i)
  /\ tabNudge' = "none"
  /\ UNCHANGED <<clockV, pageV, storeV, currentPlatform,
                 blurSkipUntil, workerEnds, popupSession,
                 sessionHistory, dailyStats, checkSessionAlarm, settings,
                 tabSession, nudgeShown, blurLevel, overlay,
                 monitorIntervals, initialChecks, pendingRequests,
                 nudgeRequests, tabStarts>>

\* a timer or the alarm of the variant is due
TabCallbackDue ==
  \/ \E i \in 1..Len(monitorIntervals) : now >= monitorIntervals[i]
  \/ \E i \in 1..Len(initialChecks) : now >= initialChecks[i]
  \/ \E i \in 1..Len(dismissTimeouts) : now >= dismissTimeouts[i]
  \/ checkSessionAlarm # <<>> /\ now >= checkSessionAlarm[1]

\* The clock of the variant, observed on a grid of TabStepMs: a callback
\* runs at the first reading at or after its due time.
AdvanceTab ==
  /\ now + TabStepMs <= MaxTabNow
  /\ popupSession # <<>> \/ monitorIntervals # <<>> \/ dismissTimeouts # <<>>
  /\ ~TabCallbackDue
  /\ now' = now + TabStepMs
  /\ UNCHANGED <<pageV, workerV>>

\* the page of the variant is loaded while the store holds no session
InitTab == Init /\ ~hidden

NextTab ==
  \/ AdvanceTab
  \/ \E timeLimit \in TimeLimits : PopupStartSession(timeLimit)
  \/ TabNotified
  \/ PageLoad
  \/ PopupEndSession
  \/ \E i \in 1..MaxMonitors : MonitorTick(i)
  \/ \E i \in 1..MaxMonitors : InitialCheck(i)
  \/ CheckSessionAlarm
  \/ NudgeResponse
  \/ \E button \in {"reflect", "dismiss", "done", "continue"} : NudgeButton(button)
  \/ \E i \in 1..MaxRequests : DismissTimeout(i)

SpecTab == InitTab /\ [][NextTab]_vars

\* ====================================================================
\* Properties
\* ====================================================================

\* --- C1: for an active session in a visible tab, the elapsed time the
\* code computes is the wall time since the start minus the total time the
\* tab was really hidden, however many hide/show cycles there were; the
\* poll interval measures from the start of the current session.
HiddenTimeAdditive ==
  /\ HasSession /\ ~hidden =>
       EffectiveElapsed(Session.startTime)
         = (now - Session.startTime) - hiddenSpan
  /\ sessionTimer # <<>> =>
       /\ HasSession
       /\ sessionTimer[1].startTime = Session.startTime

\* 10 minutes of wall time of which 2 were hidden: 8 minutes elapsed
HiddenTimeWitness ==
  /\ HasSession /\ ~hidden
  /\ now - Session.startTime = 600000
  /\ hiddenSpan = 120000
  /\ EffectiveElapsed(Session.startTime) = 480000

\* --- C2: at most one nudge modal exists in the page at any time.
AtMostOneNudge == DomNudges <= 1

\* --- C3: while a session with intendedTime > 0 has not used up its
\* intended time, the blur the in-session curve put on the page is 0.
NoBlurBeforeOverrun ==
  (/\ HasSession
   /\ Session.intendedTime > 0
   /\ EffectiveElapsed(Session.startTime) <= Session.intendedTime
   /\ blurBy = "session")
  => blurPx = Zero

\* distance of the elapsed times on which the curve is compared with itself
CurveStepMs == StepMs \div 2

\* elapsed times past the intended time, up to the end of the clock
CurveGrid(intendedTime) ==
  {intendedTime + k * CurveStepMs : k \in 0..(MaxNow \div StepMs)}

\* --- C4: past the intended time the in-session blur does not decrease as
\* the elapsed time grows and lies in [0, 6] px, as a function of the
\* elapsed time and as the value on the page.
SessionBlurMonotoneBounded ==
  /\ blurBy = "session" => RLeq(Zero, blurPx) /\ RLeq(blurPx, R(6))
  /\ HasSession =>
       \A e \in CurveGrid(Session.intendedTime) :
         LET p1 == SessionBlurPixels(
                     SessionBlurPercent(e, Session.intendedTime))
             p2 == SessionBlurPixels(
                     SessionBlurPercent(e + CurveStepMs, Session.intendedTime))
         IN RLeq(Zero, p1) /\ RLeq(p1, p2) /\ RLeq(p2, R(6))

\* the in-session curve has put a blur between 0 and its cap on the page
SessionBlurWitness ==
  /\ HasSession
  /\ blurBy = "session"
  /\ RLt(Zero, blurPx) /\ RLt(blurPx, R(3))

\* min(1, (elapsed - intended) / (intended * 0.5)) * 50 / 100 * 6
CurveOfSpec(elapsed, intended) ==
  RMul(RDiv(RMul(RMin(R(1), RDiv(R(elapsed - intended),
                                 RMul(R(intended), <<1, 2>>))),
                 R(50)),
            R(100)),
       R(6))

\* --- C5: a poll callback that finds the session over its intended time
\* sets the blur to min(1, (elapsed - intended) / (intended * 0.5)) * 50 /
\* 100 * 6 px, at once or after the nudge text it asked for has arrived; a
\* callback that finds it within the intended time leaves the blur alone.
SessionBlurFormula ==
  [][/\ SessionTick =>
          LET intended == IF HasSession THEN Session.intendedTime ELSE 0
              elapsed == EffectiveElapsed(sessionTimer[1].startTime)
          IN /\ (elapsed > intended /\ nudgeModal # "none") =>
                   blurPx' = CurveOfSpec(elapsed, intended)
             /\ elapsed <= intended => blurPx' = blurPx
     /\ \A i \in 1..Len(pendingNudges) :
          ((\E outcome \in Outcomes : NudgeResolve(i, outcome))
           /\ pendingNudges[i].kind = "session") =>
            blurPx' = CurveOfSpec(pendingNudges[i].elapsed,
                                  pendingNudges[i].intendedTime)
    ]_vars

\* intended 5 minutes, elapsed 6 minutes: 1.2 px
SessionBlurFormulaWitness ==
  /\ HasSession
  /\ Session.intendedTime = 300000
  /\ EffectiveElapsed(Session.startTime) = 360000
  /\ blurBy = "session"
  /\ blurPx = <<6, 5>>

\* clamp(blurIntensity, 0, 100) / 100 * 12
MaxOfSpec(setting) ==
  LET clamped == IF setting > 100 THEN 100
                 ELSE IF setting < 0 THEN 0 ELSE setting
  IN RMul(RDiv(R(clamped), R(100)), R(12))

\* --- C6: a callback of the ramp never lowers the post-session blur, the
\* blur on the page lies in [0, maxBlurPixels], and maxBlurPixels is
\* clamp(blurIntensity, 0, 100) / 100 * 12 for the stored blurIntensity,
\* 0 included.
PostBlurWithinSetting ==
  [][/\ (RampTick /\ blurBy = "post" /\ blurBy' = "post") =>
          RLeq(blurPx, blurPx')
     /\ isPostSessionBlurActive' =>
          /\ postMax' = MaxOfSpec(postSetting')
          /\ blurBy' = "post" =>
               RLeq(Zero, blurPx') /\ RLeq(blurPx', postMax')
    ]_vars

\* min(1, elapsedSincePostStart / 120000) * maxBlurPixels
LinearRamp(elapsedSincePostStart, max) ==
  RMul(RMin(R(1), RDiv(R(elapsedSincePostStart), R(120000))), max)

OneRequestPerOverrun ==
  [][(SessionTick /\ pendingNudges' # pendingNudges) =>
       /\ HasSession
       /\ EffectiveElapsed(Session.startTime) > Session.intendedTime
       /\ DomNudges = 0
       /\ pendingNudges = <<>>]_vars

\* a click that extends the session: "Continue 10 more min" of a nudge or
\* "Extend Time" of the blur control
ExtendClick ==
  \/ \E target \in {"current", "orphan"} : ContinueClick(target)
  \/ PopupPrimary /\ blurControlPopup = "session"

\* --- C9: extending the session while a nudge is shown leaves no nudge in
\* the page in the same step and adds exactly 600000 ms to intendedTime.
ExtendRemovesNudge ==
  [][(ExtendClick /\ HasSession /\ DomNudges > 0) =>
       /\ DomNudges' = 0
       /\ nudgeModal' = "none"
       /\ HasSession'
       /\ currentSession'[1].intendedTime = Session.intendedTime + 600000
    ]_vars

\* --- C10: with no active session an extension changes nothing of the
\* session, the nudge or the blur; with one it adds minutes * 60000 ms.
ExtendWithoutSessionNoOp ==
  [][ExtendClick =>
       IF HasSession
         THEN currentSession'[1].intendedTime
                = Session.intendedTime + 10 * 60000
         ELSE UNCHANGED <<sessV, nudgeV, blurPx, postV>>
    ]_vars

\* --- C11: while the same session stays active, over extensions,
\* visibility events, poll callbacks and reloads of the page that resume
\* it, intendedTime never decreases.
IntendedNeverDecreases ==
  [][(/\ HasSession /\ HasSession'
      /\ sessions' = sessions
      /\ currentSession'[1].intendedTime > 0) =>
       currentSession'[1].intendedTime >= Session.intendedTime]_vars

\* --- C12: a start with minutes <= 0 is rejected: it creates no session in
\* memory and writes no currentSession to the store.
StartRejectsNonPositive ==
  [][(StartResolve /\ pendingStart[1] <= 0) =>
       UNCHANGED <<sessV, storedSession>>]_vars

\* ms of the hidden interval that is open now
OpenSpan ==
  IF hidden /\ hiddenStartTime # Null THEN now - hiddenStartTime ELSE 0

ElapsedNonNegativeMonotone ==
  [][/\ HasSession => ActualTime >= 0
     /\ HasSession' => ActualTime' >= 0
     /\ (/\ HasSession /\ HasSession'
         /\ ~hidden /\ ~hidden'
         /\ sessions' = sessions) => ActualTime' >= ActualTime
    ]_vars

\* a visible session that was hidden before and has gone on since
ElapsedWitness ==
  /\ HasSession /\ ~hidden
  /\ sessionTimer # <<>>
  /\ hiddenTime > 0
  /\ ActualTime > 0

\* --- C15: while the same session stays active, hiddenTime is >= 0 and no
\* step (visibility event, poll callback or other) lowers it.
HiddenTimeNeverDecreases ==
  [][(HasSession /\ HasSession' /\ sessions' = sessions) =>
       /\ hiddenTime >= 0
       /\ hiddenTime' >= hiddenTime]_vars

\* a session whose hiddenTime holds two hidden intervals
HiddenTimeGrowsWitness ==
  /\ HasSession /\ ~hidden
  /\ hiddenTime = 2 * StepMs
  /\ now - Session.startTime > 3 * StepMs

\* --- C16: a hidden event that follows a hidden event changes neither
\* hiddenStartTime nor hiddenTime.
HiddenIdempotent ==
  [][HiddenRepeat =>
       UNCHANGED <<hiddenStartTime, hiddenTime, currentSession>>]_vars

\* a session in a tab that has been hidden for a while
HiddenIdempotentWitness ==
  /\ hidden /\ HasSession
  /\ hiddenStartTime # Null
  /\ hiddenStartTime < now

\* --- C17: a visible event adds now - hiddenStartTime to hiddenTime and
\* closes the interval when a session is active with an interval open, and
\* changes neither otherwise; a visible event that follows a visible event
\* changes neither.
VisibleIdempotent ==
  [][/\ TabVisible =>
          IF HasSession /\ hiddenStartTime # Null
            THEN /\ hiddenTime' = hiddenTime + (now - hiddenStartTime)
                 /\ hiddenStartTime' = Null
            ELSE UNCHANGED <<hiddenTime, hiddenStartTime>>
     /\ VisibleRepeat => UNCHANGED <<hiddenTime, hiddenStartTime>>
    ]_vars

\* a visible session with a closed hidden interval in hiddenTime
VisibleIdempotentWitness ==
  /\ HasSession /\ ~hidden
  /\ hiddenStartTime = Null
  /\ hiddenTime > 0
  /\ now > Session.startTime + hiddenTime

\* --- C18: while the tab is hidden the session poll is not armed.
HiddenNoPoll == hidden => sessionTimer = <<>>

\* a session that goes on in a hidden tab
HiddenNoPollWitness ==
  /\ hidden /\ HasSession
  /\ sessionTimer = <<>>
  /\ now > Session.startTime

\* --- C19: a visible event with an active session closes the hidden
\* interval and arms the poll, and whenever a session is active in a
\* visible tab the poll is armed.
VisiblePollArmed ==
  [][/\ (HasSession' /\ ~hidden') => sessionTimer' # <<>>
     /\ (TabVisible /\ HasSession) =>
          /\ hiddenStartTime' = Null
          /\ hiddenTime' = hiddenTime + OpenSpan
          /\ sessionTimer' =
               <<[due |-> now + PollMs, startTime |-> Session.startTime]>>
    ]_vars

\* the poll armed again after a hidden interval
VisiblePollArmedWitness ==
  /\ HasSession /\ ~hidden
  /\ hiddenTime > 0
  /\ sessionTimer # <<>>
  /\ sessionTimer[1].due = now + PollMs

\* --- C20: whatever became of the request to the text provider, the
\* nudge asked for is created with a text that is not empty.
NudgeAlwaysShown ==
  [][\A i \in 1..Len(pendingNudges) : \A outcome \in Outcomes :
       NudgeResolve(i, outcome) =>
         /\ nudgeModal' = pendingNudges[i].kind
         /\ nudgeText' # ""
         /\ DomNudges' >= 1]_vars

\* a nudge shown with a fallback text
NudgeFallbackWitness ==
  /\ nudgeModal = "session"
  /\ nudgeText = "fallback session"

\* --- C21: a click on "Done for now" or "Continue 10 more min" of the
\* displayed session nudge removes the nudge: in the step, or, for "done",
\* when the endSession the click started has finished.
NudgeClickDismisses ==
  [][(/\ nudgeModal = "session"
      /\ EndSessionCall("current") \/ ContinueClick("current")) =>
       (nudgeModal' = "none" \/ pendingEnds' > pendingEnds)]_vars

\* --- C22: in no state is a session active while isPostSessionBlurActive
\* is true.
NoPostBlurInSession == ~(HasSession /\ isPostSessionBlurActive)

\* the overlay is clear and the post-session ramp is not running
TornDown ==
  /\ blurPx = Zero
  /\ postSessionBlurTimer = <<>>
  /\ ~isPostSessionBlurActive

\* --- C23: the start of a new session (from the prompt or by the
\* sessionStarted message) leaves the blur at 0 and the ramp torn down in
\* the same step; "Remove for 10 min" sets the blur to 0 at the click and
\* has torn the ramp down when its handler has finished; a ramp callback
\* raises the blur only in an active post-session phase with no session.
StartOrRemoveTearsDown ==
  [][/\ (\E m \in IntentChoices : ClickIntent(m) \/ SessionStartedMsg(m)) =>
          TornDown'
     /\ PopupSecondary("remove") => blurPx' = Zero
     /\ (PopupResume /\ pendingPopup = "remove") => TornDown'
     /\ (RampTick /\ blurPx' # blurPx /\ blurPx' # Zero) =>
          (isPostSessionBlurActive /\ ~HasSession /\ pendingStart = <<>>)
    ]_vars

PostNudgeCheckTimes ==
  [][isPostSessionBlurActive =>
       /\ (\E i \in 1..Len(firstNudgeTimeouts) : FirstNudgeTimeout(i)) =>
            now >= postSessionBlurStartTime + FirstNudgeDelay
       /\ NudgeIntervalTick =>
            now >= postSessionBlurStartTime + FirstNudgeDelay + NudgeInterval
    ]_vars

\* --- C26: when the modal of a post-session nudge is created, no nudge is
\* displayed, isPostSessionBlurActive is true and no session is active.
PostNudgeOnlyInPostPhase ==
  [][\A i \in 1..Len(pendingNudges) :
       (NudgeResolve(i, "text") /\ pendingNudges[i].kind = "post") =>
         /\ nudgeModal = "none"
         /\ isPostSessionBlurActive
         /\ ~HasSession]_vars

\* --- C27: when a new session is started from the intent prompt, no timer
\* of the post-session nudges stays armed: neither the 45 s interval nor a
\* 30 s timeout.
NewSessionCancelsNudgeTimers ==
  [][(\E m \in IntentChoices : ClickIntent(m)) =>
       /\ postSessionNudgeTimer' = <<>>
       /\ firstNudgeTimeouts' = <<>>]_vars

\* --- C28: when the session could not be stored at its start, the
\* session still exists in memory afterwards and, in a visible tab, its
\* poll is armed.
StartSurvivesStoreFailure ==
  [][(\E failure \in StoreFailures : StartFail(failure)) =>
       /\ HasSession'
       /\ ~hidden => sessionTimer' # <<>>]_vars

\* --- C29: with intendedTime 0 the in-session curve gives 50 percent and
\* 3 px for every elapsed time > 0, and that is what a poll callback of
\* such a session writes to the page.
ZeroIntentBlur ==
  [][/\ \A k \in 1..(MaxNow \div StepMs) :
          /\ SessionBlurPercent(k * StepMs, 0) = R(SessionBlurCapPercent)
          /\ SessionBlurPixels(SessionBlurPercent(k * StepMs, 0)) = <<3, 1>>
     /\ (/\ SessionTick /\ nudgeModal # "none"
         /\ HasSession /\ Session.intendedTime = 0
         /\ EffectiveElapsed(sessionTimer[1].startTime) > 0) =>
          (blurOverlay' /\ blurPx' = <<3, 1>>)
     /\ \A i \in 1..Len(pendingNudges) :
          (/\ \E outcome \in Outcomes : NudgeResolve(i, outcome)
           /\ pendingNudges[i].kind = "session"
           /\ pendingNudges[i].intendedTime = 0
           /\ pendingNudges[i].elapsed > 0) =>
            (blurOverlay' /\ blurPx' = <<3, 1>>)
    ]_vars

\* a session of 0 minutes whose poll has put 3 px on the page
ZeroIntentBlurWitness ==
  /\ HasSession
  /\ Session.intendedTime = 0
  /\ nudgeModal = "session"
  /\ blurBy = "session"
  /\ blurPx = <<3, 1>>
  /\ isBlurActive

\* --- C30: for the intendedTime of every nudge request and every tone,
\* the fallback message is a non-empty string, it is a post-session
\* template exactly when intendedTime is 0, and for a tone other than
\* encouraging, neutral and direct it is the encouraging template.
FallbackBranchesOnSentinel ==
  \A i \in 1..Len(pendingNudges) : \A tone \in Tones :
    LET intendedTime == pendingNudges[i].intendedTime \div MsPerMinute
        message == GenerateFallbackMessage(intendedTime, tone)
        postSession == {"fallback post-session", "neutral post-session",
                        "direct post-session"}
    IN /\ message # "" /\ message # Undefined
       /\ message \in postSession <=> intendedTime = 0
       /\ tone \notin OwnTones =>
            message = Messages(intendedTime).encouraging

NewRecords ==
  {i \in 1..Len(storedSessions) : storedSessions[i].actualTime < 1000}

RECURSIVE SumMinutes(_)
SumMinutes(indices) ==
  IF indices = {} THEN 0
  ELSE LET i == CHOOSE j \in indices : TRUE
       IN  storedSessions[i].actualTime + SumMinutes(indices \ {i})

\* --- C36: once every endSession call has been answered, each session
\* that was ended has exactly one record in the history and its minutes
\* were added once to the daily usage, also when calls overlapped.
EndedOnce ==
  workerEnds = <<>> =>
    /\ Cardinality(NewRecords)
         = sessions - (IF storedSession # <<>> THEN 1 ELSE 0)
    /\ dailyUsage = SumMinutes(NewRecords)


\* a step in which the tab's content script runs updateBlurOverlay for
\* its session
OverlayUpdated ==
  /\ tabSession # <<>>
  /\ \/ \E i \in 1..MaxMonitors : MonitorTick(i)
     \/ \E i \in 1..MaxMonitors : InitialCheck(i)
     \/ /\ CheckSessionAlarm
        /\ RLt(R(tabSession[1].timeLimit), TabElapsed(tabSession[1]))

\* --- C32: in the popup-driven variant the blur overlay is absent while
\* the elapsed time is below 80 % of the time limit, begins (at level 0)
\* at 80 %, never decreases from one update to the next, stays below the
\* maximum before 130 % of the limit and has the maximum from 130 % on.
BlurProgression ==
  /\ overlay # <<>> =>
       /\ tabSession # <<>>
       /\ RLeq(BlurThreshold(tabSession[1].timeLimit), TabElapsed(tabSession[1]))
  /\ [][OverlayUpdated =>
         LET elapsed == TabElapsed(tabSession[1])
             timeLimit == tabSession[1].timeLimit
             full == RMul(R(timeLimit), <<13, 10>>)
         IN  /\ RLt(elapsed, BlurThreshold(timeLimit)) => overlay' = <<>>
             /\ RLeq(BlurThreshold(timeLimit), elapsed) =>
                  /\ overlay' # <<>>
                  /\ RLeq(Zero, overlay'[1])
                  /\ overlay'[1] = Zero <=> elapsed = BlurThreshold(timeLimit)
                  /\ overlay'[1] = R(MaxBlurLevel) <=> RLeq(full, elapsed)
                  /\ RLeq(overlay'[1], R(MaxBlurLevel))
                  /\ overlay # <<>> => RLeq(overlay[1], overlay'[1])]_vars

\* a 5-minute session has the full blur at 6.5 minutes, after it had a
\* partial blur
BlurProgressionWitness ==
  /\ tabSession # <<>>
  /\ tabSession[1].timeLimit = 5
  /\ now - tabSession[1].startTime = 390000
  /\ overlay = <<R(MaxBlurLevel)>>

\* --- C33: in the popup-driven variant a tab requests at most one nudge
\* per session, whatever mix of monitor ticks, SESSION_ACTIVE
\* notifications and TIME_EXCEEDED alarms it sees.
OneNudgePerSession == nudgeRequests <= 1


\* --- C34: when the page is loaded while the store holds a session of the
\* page's platform (every stored session of the model is one), the
\* session is resumed without the intent prompt, the poll measures the
\* elapsed time from the stored start time, and the nudge and the blur of a
\* poll tick follow that elapsed time.
ResumedOnLoad ==
  /\ [][(Reload /\ storedSession # <<>>) =>
          /\ currentSession' = storedSession
          /\ ~intentPrompt'
          /\ hiddenTime' = 0
          /\ ~hidden =>
               /\ sessionTimer' # <<>>
               /\ sessionTimer'[1].startTime = storedSession[1].startTime
          /\ hidden => sessionTimer' = <<>> /\ hiddenStartTime' = now]_vars
  /\ [][(SessionTick /\ HasSession /\ currentSession = storedSession) =>
          LET elapsed == now - storedSession[1].startTime - hiddenTime
              intendedTime == storedSession[1].intendedTime
          IN  /\ (elapsed > intendedTime /\ nudgeModal = "none") =>
                   pendingNudges' = Append(pendingNudges,
                     [kind |-> "session", elapsed |-> elapsed,
                      intendedTime |-> intendedTime])
              /\ (elapsed > intendedTime /\ nudgeModal # "none"
                    /\ intendedTime > 0) =>
                   /\ blurOverlay'
                   /\ blurPx' = SessionBlurPixels(
                                  SessionBlurPercent(elapsed, intendedTime))
              /\ elapsed <= intendedTime =>
                   UNCHANGED <<pendingNudges, blurPx, blurOverlay>>]_vars



\* --- C35: for 10 minutes after the user has chosen "Remove for 10 min" in
\* the blur control, the page has no blur, neither of a session nor of the
\* post-session phase.
NoBlurAfterRemove == now < blurSkipUntil => (~blurOverlay /\ blurPx = Zero)


\* endSession has completed, and neither a new session nor the
\* post-session blur has started since
SessionEnded ==
  /\ sessionCompleteModal
  /\ ~HasSession
  /\ pendingStart = <<>>
  /\ ~isPostSessionBlurActive

\* --- C37: from the completion of endSession until a new session or the
\* post-session blur starts, no nudge is displayed, the blur of the overlay
\* is 0 and the session poll is not armed, also when a poll tick or a
\* request for the text of a nudge was in flight at the end.
CleanAfterEnd ==
  SessionEnded =>
    /\ DomNudges = 0
    /\ blurPx = Zero
    /\ sessionTimer = <<>>


====
